---------------------------- MODULE Spec2Model ----------------------------
(***************************************************************************)
(* A model of the Urdu transcription pipeline (src/process_pipeline.py):   *)
(* chunk_audio, ms_to_timestamp, process_chunks,                           *)
(* process_chunk_with_retries, save_processed_data, update_metadata,       *)
(* process_file and process_dataset_folder of class                        *)
(* UrduTranscriptionPipeline, the single-file branch of main(), and the    *)
(* ledger part of the viewer's load_processed_data (src/streamlit_app.py). *)
(*                                                                         *)
(* Texts are sequences of one-character strings, times are integers in     *)
(* milliseconds, and the remote service, the codec and the file system are *)
(* the environment: their outcomes are chosen nondeterministically.        *)
(***************************************************************************)
EXTENDS Integers, Sequences, FiniteSets, TLC

(***************************************************************************)
(* Bounds of the model.                                                    *)
(***************************************************************************)
\* chunk_audio called directly: durations 0..MaxDurationMs,
\* chunk sizes 1..MaxChunkSizeMs, overlaps 0..MaxChunkSizeMs.
MaxDurationMs == 12
MaxChunkSizeMs == 5
\* process_file: source files long enough for 0..MaxWindows windows
MaxWindows == 3
\* update_metadata is called at most MaxCalls times in a row
MaxCalls == 4
\* process_chunk_with_retries is called with max_retries in 0..MaxRetries
MaxRetries == 4
\* the remote service fails at most the first MaxFaults attempts on a payload
MaxFaults == 5

(***************************************************************************)
(* Program constants.                                                      *)
(***************************************************************************)
\* def chunk_audio(self, audio_path, chunk_size_ms=30000, overlap_ms=5000)
DefaultChunkSizeMs == 30000
DefaultOverlapMs == 5000
\* def process_chunk_with_retries(self, temp_path, urdu_prompt, max_retries=3)
DefaultMaxRetries == 3

VARIABLES
    pc,              \* position of the (single) thread of control
    entry,           \* the method the caller invoked
    decodable,       \* whether AudioSegment.from_file can decode the source
    audio_len,       \* len(audio) of the source file, in ms
    chunk_size_ms,   \* chunk_audio's parameter
    overlap_ms,      \* chunk_audio's parameter
    start_ms,        \* chunk_audio's loop variable
    chunks,          \* chunk_audio's list of slices audio[start_ms:end_ms]
    chunk_metadata,  \* chunk_audio's list of metadata dicts
    fault_budget,    \* environment: how many more attempts the remote service fails
    file_pos,        \* read position of the open audio_file (Closed when not open)
    transcription,   \* local: the transcription response
    translation,     \* local: the translation response
    exc,             \* the exception being handled or raised (NoError when none)
    remote_log,      \* history: the remote requests issued and the backoff sleeps
    max_retries,     \* process_chunk_with_retries' parameter
    attempt,         \* process_chunk_with_retries' loop variable
    retry_result,    \* what process_chunk_with_retries returned
    i,               \* process_chunks' loop index (0-based)
    results,         \* process_chunks' list of result dicts
    temp_files,      \* the temporary files that exist
    audio_path,      \* the source file being processed
    file_data,       \* the dict save_processed_data returns
    metadata,        \* update_metadata's local: the ledger document in memory
    outputs,         \* processed_data/: the files written per stem
    ledger_file,     \* processed_data/metadata.json
    clock,           \* datetime.now(), counted in calls
    call_log,        \* history: the calls made by the caller and how they ended
    ledger0,         \* history: metadata.json as the first call found it
    dataset,         \* environment: the dataset root and the files under it
    audio_files,     \* process_dataset_folder's list of discovered files
    file_idx,        \* process_dataset_folder's loop position (0-based)
    invocations,     \* history: the calls of process_file and how they ended
    snap,            \* history: outputs and metadata.json as the last call found them
    writers,         \* the concurrent callers of update_metadata
    reader_seen,     \* what the viewer's load_processed_data got
    overlapped,      \* history: whether two calls of update_metadata overlapped
    ts_ms,           \* ms_to_timestamp's parameter
    ts_out           \* what ms_to_timestamp returned

chunkVars == <<decodable, audio_len, chunk_size_ms, overlap_ms, start_ms,
               chunks, chunk_metadata>>
remoteVars == <<fault_budget, file_pos, transcription, translation, exc,
                remote_log>>
retryVars == <<max_retries, attempt, retry_result>>
batchVars == <<i, results, temp_files>>
storeVars == <<audio_path, file_data, metadata, outputs, ledger_file, clock,
               call_log, ledger0>>
walkVars == <<dataset, audio_files, file_idx, invocations, snap>>
peerVars == <<writers, reader_seen, overlapped>>
stampVars == <<ts_ms, ts_out>>
extVars == <<walkVars, peerVars, stampVars>>
vars == <<pc, entry, chunkVars, remoteVars, retryVars, batchVars, storeVars,
          extVars>>

(***************************************************************************)
(* ms_to_timestamp: f"{minutes:02d}:{seconds:02d}:{milliseconds:02d}"      *)
(***************************************************************************)
DigitChars == <<"0", "1", "2", "3", "4", "5", "6", "7", "8", "9">>

RECURSIVE Decimal(_)
\* str(n) for n >= 0, as a sequence of digit characters
Decimal(n) ==
    IF n < 10 THEN <<DigitChars[n + 1]>>
    ELSE Decimal(n \div 10) \o <<DigitChars[(n % 10) + 1]>>

\* format spec 02d: zero-padded to a width of at least two
Format02d(n) ==
    IF Len(Decimal(n)) < 2 THEN <<"0">> \o Decimal(n) ELSE Decimal(n)

\* (variant: the hundredths rounded to the nearest instead of cut)
ms_to_timestamp_rounded(ms) ==
    LET minutes == ms \div 60000
        seconds == (ms % 60000) \div 1000
        milliseconds == ((ms % 1000) + 5) \div 10
    IN  Format02d(minutes) \o <<":">> \o Format02d(seconds) \o <<":">>
            \o Format02d(milliseconds)
ms_to_timestamp(ms) ==
    LET minutes == ms \div 60000
        seconds == (ms % 60000) \div 1000
        milliseconds == (ms % 1000) \div 10
    IN  Format02d(minutes) \o <<":">> \o Format02d(seconds) \o <<":">>
            \o Format02d(milliseconds)

(***************************************************************************)
(* chunk_audio                                                             *)
(***************************************************************************)
Min(a, b) == IF a < b THEN a ELSE b

\* step_ms = chunk_size_ms - overlap_ms
\* (variant: the overlap added to the chunk size)
StepMsSum(chunk, overlap) == chunk + overlap
StepMs(chunk, overlap) == chunk - overlap

\* end_ms = min(start_ms + chunk_size_ms, duration_ms)
\* (variant: the end not clamped to the duration)
WindowEndUnclamped(start, chunk, duration) == start + chunk
WindowEnd(start, chunk, duration) == Min(start + chunk, duration)

\* whether range(0, stop, step) still yields the value cur
\* (variant: the stop value included)
RangeHasLe(cur, stop, step) == IF step > 0 THEN cur <= stop ELSE cur > stop
RangeHas(cur, stop, step) == IF step > 0 THEN cur < stop ELSE cur > stop

\* the dict appended to chunk_metadata
ChunkMeta(start, end) ==
    [start_time |-> ms_to_timestamp(start),
     end_time |-> ms_to_timestamp(end),
     duration_ms |-> end - start]

\* audio = AudioSegment.from_file(audio_path); duration_ms = len(audio);
\* step_ms = ...; range(0, duration_ms, step_ms).  A source that cannot be
\* decoded raises, and range() raises ValueError for a step of zero; both
\* are logged and re-raised by the except clause.
chunk_audio_load ==
    /\ pc = "chunk_audio"
    /\ chunks' = <<>>
    /\ chunk_metadata' = <<>>
    /\ start_ms' = 0
    /\ pc' = IF ~decodable \/ StepMs(chunk_size_ms, overlap_ms) = 0
             THEN "chunk_audio_raised"
             ELSE "chunk_audio_loop"
    /\ UNCHANGED <<entry, decodable, audio_len, chunk_size_ms, overlap_ms>>
    /\ UNCHANGED <<remoteVars, retryVars, batchVars, storeVars>>
    /\ UNCHANGED extVars

\* one iteration of the for loop
chunk_audio_iter ==
    /\ pc = "chunk_audio_loop"
    /\ RangeHas(start_ms, audio_len, StepMs(chunk_size_ms, overlap_ms))
    /\ LET end_ms == WindowEnd(start_ms, chunk_size_ms, audio_len)
       IN  /\ chunks' = Append(chunks, [start_ms |-> start_ms, end_ms |-> end_ms])
           /\ chunk_metadata' = Append(chunk_metadata, ChunkMeta(start_ms, end_ms))
    /\ start_ms' = start_ms + StepMs(chunk_size_ms, overlap_ms)
    /\ UNCHANGED <<pc, entry, decodable, audio_len, chunk_size_ms, overlap_ms>>
    /\ UNCHANGED <<remoteVars, retryVars, batchVars, storeVars>>
    /\ UNCHANGED extVars

\* the range is exhausted: return chunks, chunk_metadata, duration_ms
chunk_audio_return ==
    /\ pc = "chunk_audio_loop"
    /\ ~RangeHas(start_ms, audio_len, StepMs(chunk_size_ms, overlap_ms))
    /\ pc' = "chunk_audio_returned"
    /\ UNCHANGED <<entry, chunkVars, remoteVars, retryVars, batchVars, storeVars>>
    /\ UNCHANGED extVars

(***************************************************************************)
(* Texts: sequences of one-character strings.                              *)
(***************************************************************************)
\* sample characters of the ranges [U+0600-U+06FF, U+0750-U+077F] of the regex
UrduScriptChars == {"U+0633", "U+0644", "U+0750"}
\* the characters str.split() splits at
Whitespace == {" "}

\* the literal '[Error'
ErrorPrefix == <<"[", "E", "r", "r", "o", "r">>
\* "[Error in Urdu transcription]"
UrduPlaceholder ==
    ErrorPrefix \o <<" ", "i", "n", " ", "U", "r", "d", "u", " ", "t", "r", "a",
                     "n", "s", "c", "r", "i", "p", "t", "i", "o", "n", "]">>
\* "[Error in English translation]"
EnglishPlaceholder ==
    ErrorPrefix \o <<" ", "i", "n", " ", "E", "n", "g", "l", "i", "s", "h", " ",
                     "t", "r", "a", "n", "s", "l", "a", "t", "i", "o", "n", "]">>

\* s.startswith(prefix)
StartsWith(s, prefix) ==
    Len(s) >= Len(prefix) /\ SubSeq(s, 1, Len(prefix)) = prefix

\* len(s.split()): the number of maximal runs of non-whitespace characters
WordCount(s) ==
    Cardinality({k \in 1..Len(s) :
                    s[k] \notin Whitespace /\ (k = 1 \/ s[k - 1] \in Whitespace)})

\* bool(re.search(r'[U+0600-U+06FF U+0750-U+077F]', urdu_text))
HasUrduChars(s) == \E k \in 1..Len(s) : s[k] \in UrduScriptChars

RECURSIVE Join(_)
\* " ".join(texts)
Join(texts) ==
    IF Len(texts) = 0 THEN <<>>
    ELSE IF Len(texts) = 1 THEN Head(texts)
    ELSE Head(texts) \o <<" ">> \o Join(Tail(texts))

(***************************************************************************)
(* The remote service (self.client.audio.transcriptions / translations).   *)
(* It fails the next fault_budget attempts on the payload, each either in  *)
(* the transcription request or in the translation request, and answers    *)
(* every later request with some text.                                     *)
(***************************************************************************)
\* what the transcription request may answer
UrduTexts ==
    { <<"U+0633", "U+0644", " ", "U+0750">>,
      <<"a", " ", " ", "b">>,
      ErrorPrefix \o <<" ", "4", "0", "4">> }
\* what the translation request may answer
EnglishTexts == { <<"h", "i">>, ErrorPrefix \o <<"s">> }

NoError == [op |-> "none", attempt |-> -1]
NoText == <<"<unset>">>
Failure(op, n) == [op |-> op, attempt |-> n]

\* the read position of a file that is not open
Closed == -1
\* the read position after a request has read the payload
PayloadEnd == 1

RemoteIdle ==
    /\ file_pos = Closed
    /\ transcription = NoText
    /\ translation = NoText
    /\ exc = NoError
    /\ remote_log = <<>>

\* audio_file.seek(0): the read position after the call
\* (variant: the read position left where the previous request ended)
SeekNone(pos) == pos
Seek0(pos) == 0

\* audio_file.seek(0) followed by a request that reads the payload from the
\* read position to its end
LogRequest(op, n, ok, text) ==
    Append(remote_log,
           [op |-> op, attempt |-> n, pos |-> Seek0(file_pos), ok |-> ok,
            text |-> text])

(***************************************************************************)
(* process_chunk_with_retries                                              *)
(***************************************************************************)
\* random.uniform(1, 3), in whole seconds
\* (variant: a jitter from 0 on)
JittersFromZero == {0, 1, 2, 3}
Jitters == {1, 2, 3}

\* for attempt in range(max_retries): the next attempt, or the end of the
\* loop, where the function falls off its end and returns None
\* (variant: a first attempt made whatever max_retries is)
retry_loop_at_least_once ==
    /\ pc = "retry_loop"
    /\ IF attempt < max_retries \/ attempt = 0
       THEN /\ pc' = "retry_transcription"
            /\ file_pos' = 0
            /\ UNCHANGED retry_result
       ELSE /\ pc' = "retry_returned"
            /\ retry_result' = [kind |-> "None"]
            /\ UNCHANGED file_pos
    /\ UNCHANGED <<entry, chunkVars, fault_budget, transcription, translation,
                   exc, remote_log, max_retries, attempt, batchVars, storeVars,
                   extVars>>
retry_loop ==
    /\ pc = "retry_loop"
    /\ IF attempt < max_retries
       THEN /\ pc' = "retry_transcription"
            /\ file_pos' = 0
            /\ UNCHANGED retry_result
       ELSE /\ pc' = "retry_returned"
            /\ retry_result' = [kind |-> "None"]
            /\ UNCHANGED file_pos
    /\ UNCHANGED <<entry, chunkVars, fault_budget, transcription, translation,
                   exc, remote_log, max_retries, attempt, batchVars, storeVars>>
    /\ UNCHANGED extVars

\* audio_file.seek(0); self.client.audio.transcriptions.create(...)
retry_transcription ==
    /\ pc = "retry_transcription"
    /\ \/ /\ fault_budget > 0
          /\ fault_budget' = fault_budget - 1
          /\ exc' = Failure("transcription", attempt)
          /\ remote_log' = LogRequest("transcription", attempt, FALSE, NoText)
          /\ file_pos' = Closed
          /\ pc' = "retry_except"
          /\ UNCHANGED transcription
       \/ /\ \E t \in UrduTexts :
                /\ transcription' = t
                /\ remote_log' = LogRequest("transcription", attempt, TRUE, t)
          /\ file_pos' = PayloadEnd
          /\ pc' = "retry_translation"
          /\ UNCHANGED <<fault_budget, exc>>
    /\ UNCHANGED <<entry, chunkVars, translation, retryVars, batchVars,
                   storeVars>>
    /\ UNCHANGED extVars

\* audio_file.seek(0); self.client.audio.translations.create(...); on
\* success the texts are taken from the responses and returned with the
\* script flag
retry_translation ==
    /\ pc = "retry_translation"
    /\ IF fault_budget > 0
       THEN /\ fault_budget' = fault_budget - 1
            /\ exc' = Failure("translation", attempt)
            /\ remote_log' = LogRequest("translation", attempt, FALSE, NoText)
            /\ pc' = "retry_except"
            /\ UNCHANGED <<translation, retry_result>>
       ELSE /\ \E t \in EnglishTexts :
                  /\ translation' = t
                  /\ retry_result' =
                        [kind |-> "triple",
                         urdu_text |-> transcription,
                         english_text |-> t,
                         has_urdu_chars |-> HasUrduChars(transcription)]
                  /\ remote_log' = LogRequest("translation", attempt, TRUE, t)
            /\ pc' = "retry_returned"
            /\ UNCHANGED <<fault_budget, exc>>
    /\ file_pos' = Closed
    /\ UNCHANGED <<entry, chunkVars, transcription, max_retries, attempt,
                   batchVars, storeVars>>
    /\ UNCHANGED extVars

\* if attempt < max_retries - 1
\* (variant: one retry fewer)
RetryAgainOffByOne(n, max) == n < max - 2
RetryAgain(n, max) == n < max - 1

\* except Exception as e: sleep and go on with the next attempt, or raise e
\* on the final attempt
retry_except ==
    /\ pc = "retry_except"
    /\ IF RetryAgain(attempt, max_retries)
       THEN /\ \E jitter \in Jitters :
                  remote_log' = Append(remote_log,
                      [op |-> "sleep", attempt |-> attempt,
                       wait_time |-> (2 ^ attempt) + jitter])
            /\ attempt' = attempt + 1
            /\ exc' = NoError
            /\ pc' = "retry_loop"
       ELSE /\ pc' = "retry_raised"
            /\ UNCHANGED <<remote_log, attempt, exc>>
    /\ UNCHANGED <<entry, chunkVars, fault_budget, file_pos, transcription,
                   translation, max_retries, retry_result, batchVars, storeVars>>
    /\ UNCHANGED extVars

RetryIdle ==
    /\ max_retries = DefaultMaxRetries
    /\ attempt = 0
    /\ retry_result = [kind |-> "unset"]

(***************************************************************************)
(* process_chunks                                                          *)
(***************************************************************************)
\* 'chunk_id': i+1
\* (variant: the 0-based index)
ChunkIdZeroBased(idx) == idx
ChunkId(idx) == idx + 1

\* the result dict of a window that was transcribed and translated
SuccessResult(idx, meta, urdu_text, english_text) ==
    [chunk_id |-> ChunkId(idx),
     start_time |-> meta.start_time,
     end_time |-> meta.end_time,
     urdu_text |-> urdu_text,
     english_translation |-> english_text,
     urdu_word_count |-> WordCount(urdu_text),
     english_word_count |-> WordCount(english_text),
     has_urdu_script |-> HasUrduChars(urdu_text)]

\* the result dict built by the except clause
DegradedResult(idx, meta, e) ==
    [chunk_id |-> ChunkId(idx),
     start_time |-> meta.start_time,
     end_time |-> meta.end_time,
     urdu_text |-> UrduPlaceholder,
     english_translation |-> EnglishPlaceholder,
     error |-> e,
     has_urdu_script |-> FALSE]

\* zip(chunks, chunk_metadata) stops at the shorter list
ZipLen == Min(Len(chunks), Len(chunk_metadata))

\* the loop head: the next window gets its temporary file (a new payload,
\* for which the remote service has a new number of failing attempts), or
\* the loop ends and process_chunks returns results to process_file, whose
\* next statement calls save_processed_data.  The locals of the previous
\* iteration are dead here (each is assigned before it is read) and are
\* cleared; remote_log restarts with the payload.
process_chunks_next ==
    /\ pc = "process_chunks"
    /\ IF i < ZipLen
       THEN /\ temp_files' = temp_files \cup {i + 1}
            /\ \E n \in 0..MaxFaults : fault_budget' = n
            /\ pc' = "process_chunks_export"
       ELSE /\ pc' = "save_processed_data"
            /\ fault_budget' = 0
            /\ UNCHANGED temp_files
    /\ remote_log' = <<>>
    /\ transcription' = NoText
    /\ translation' = NoText
    /\ exc' = NoError
    /\ UNCHANGED <<entry, chunkVars, file_pos, retryVars, i, results, storeVars>>
    /\ UNCHANGED extVars

\* chunk.export(temp_path, format="mp3"); open(temp_path, 'rb')
process_chunks_export ==
    /\ pc = "process_chunks_export"
    /\ \/ /\ pc' = "process_chunks_transcription"
          /\ file_pos' = 0
          /\ UNCHANGED exc
       \/ /\ pc' = "process_chunks_except"
          /\ exc' = Failure("export", 0)
          /\ UNCHANGED file_pos
    /\ UNCHANGED <<entry, chunkVars, fault_budget, transcription, translation,
                   remote_log, retryVars, batchVars, storeVars>>
    /\ UNCHANGED extVars

\* audio_file.seek(0); self.client.audio.transcriptions.create(...)
process_chunks_transcription ==
    /\ pc = "process_chunks_transcription"
    /\ \/ /\ fault_budget > 0
          /\ fault_budget' = fault_budget - 1
          /\ exc' = Failure("transcription", 0)
          /\ remote_log' = LogRequest("transcription", 0, FALSE, NoText)
          /\ file_pos' = Closed
          /\ pc' = "process_chunks_except"
          /\ UNCHANGED transcription
       \/ /\ \E t \in UrduTexts :
                /\ transcription' = t
                /\ remote_log' = LogRequest("transcription", 0, TRUE, t)
          /\ file_pos' = PayloadEnd
          /\ pc' = "process_chunks_translation"
          /\ UNCHANGED <<fault_budget, exc>>
    /\ UNCHANGED <<entry, chunkVars, translation, retryVars, batchVars,
                   storeVars>>
    /\ UNCHANGED extVars

\* audio_file.seek(0); self.client.audio.translations.create(...); on
\* success the result dict is built and appended
process_chunks_translation ==
    /\ pc = "process_chunks_translation"
    /\ IF fault_budget > 0
       THEN /\ fault_budget' = fault_budget - 1
            /\ exc' = Failure("translation", 0)
            /\ remote_log' = LogRequest("translation", 0, FALSE, NoText)
            /\ pc' = "process_chunks_except"
            /\ UNCHANGED <<translation, results>>
       ELSE /\ \E t \in EnglishTexts :
                  /\ translation' = t
                  /\ remote_log' = LogRequest("translation", 0, TRUE, t)
                  /\ results' = Append(results,
                        SuccessResult(i, chunk_metadata[i + 1], transcription, t))
            /\ pc' = "process_chunks_finally"
            /\ UNCHANGED <<fault_budget, exc>>
    /\ file_pos' = Closed
    /\ UNCHANGED <<entry, chunkVars, transcription, retryVars, i, temp_files,
                   storeVars>>
    /\ UNCHANGED extVars

\* except Exception as e: the degraded result is appended
\* (variant: the exception re-raised to process_file)
process_chunks_except_reraise ==
    /\ pc = "process_chunks_except"
    /\ pc' = "process_file_except"
    /\ UNCHANGED <<entry, chunkVars, remoteVars, retryVars, batchVars, storeVars>>
    /\ UNCHANGED extVars
process_chunks_except ==
    /\ pc = "process_chunks_except"
    /\ results' = Append(results, DegradedResult(i, chunk_metadata[i + 1], exc))
    /\ pc' = "process_chunks_finally"
    /\ UNCHANGED <<entry, chunkVars, remoteVars, retryVars, i, temp_files,
                   storeVars>>
    /\ UNCHANGED extVars

\* finally: os.remove(temp_path); then the next iteration
\* (variant: the file removed at the end of the try block, not in a finally)
process_chunks_remove_in_try ==
    /\ pc = "process_chunks_finally"
    /\ temp_files' = IF exc = NoError THEN temp_files \ {i + 1} ELSE temp_files
    /\ i' = i + 1
    /\ pc' = "process_chunks"
    /\ UNCHANGED <<entry, chunkVars, remoteVars, retryVars, results, storeVars,
                   extVars>>
process_chunks_finally ==
    /\ pc = "process_chunks_finally"
    /\ temp_files' = temp_files \ {i + 1}
    /\ i' = i + 1
    /\ pc' = "process_chunks"
    /\ UNCHANGED <<entry, chunkVars, remoteVars, retryVars, results, storeVars>>
    /\ UNCHANGED extVars

BatchIdle ==
    /\ i = 0
    /\ results = <<>>
    /\ temp_files = {}

(***************************************************************************)
(* The store: the source files, processed_data/ and metadata.json.         *)
(***************************************************************************)
\* the source files of the dataset
Sources ==
    { [dir |-> "Dataset", stem |-> "talk", ext |-> ".m4a"],
      [dir |-> "Dataset/day2", stem |-> "talk", ext |-> ".wav"],
      [dir |-> "Dataset", stem |-> "intro", ext |-> ".mp3"] }
NoPath == [dir |-> "", stem |-> "", ext |-> ""]
Stems == {src.stem : src \in Sources}

\* Path(p).stem and Path(p).name
PathStem(path) == path.stem
PathName(path) == <<path.stem, path.ext>>

NoFile == [exists |-> FALSE]
File(content) == [exists |-> TRUE, content |-> content]

\* the four files save_processed_data writes for a stem
NoOutputs ==
    [audio |-> NoFile, urdu |-> NoFile, english |-> NoFile, detailed |-> NoFile]

\* metadata.json: absent, of size 0, not parsable by json.load, or a JSON
\* document (a dict, or something else such as a list)
LedgerAbsent == [kind |-> "absent"]
LedgerEmpty == [kind |-> "empty"]
LedgerUnparsable == [kind |-> "unparsable"]
LedgerJson(doc) == [kind |-> "json", isdict |-> TRUE, doc |-> doc]
LedgerJsonList == [kind |-> "json", isdict |-> FALSE, doc |-> [items |-> <<>>]]

\* the zero-state document; last_processed None is written -1
ZeroState ==
    [total_files |-> 0,
     total_duration |-> 0,
     processing_history |-> <<>>,
     avg_accuracy |-> 95,
     last_processed |-> -1]

NoMetadata == [isdict |-> FALSE, doc |-> [unset |-> TRUE]]
NoFileData == [unset |-> TRUE]

\* the callers process_file runs under: called directly, by
\* process_dataset_folder, or by main()
ProcessFileCallers == {"process_file", "process_dataset_folder", "main"}

(***************************************************************************)
(* save_processed_data                                                     *)
(***************************************************************************)
\* [r['urdu_text'] for r in results if not r['urdu_text'].startswith('[Error')]
\* (variant: only the texts of the results flagged as holding Urdu script)
RECURSIVE KeptUrduScriptOnly(_)
KeptUrduScriptOnly(rs) ==
    IF Len(rs) = 0 THEN <<>>
    ELSE (IF StartsWith(Head(rs).urdu_text, ErrorPrefix)
             \/ ~Head(rs).has_urdu_script
          THEN <<>> ELSE <<Head(rs).urdu_text>>) \o KeptUrduScriptOnly(Tail(rs))
RECURSIVE KeptUrdu(_)
KeptUrdu(rs) ==
    IF Len(rs) = 0 THEN <<>>
    ELSE (IF StartsWith(Head(rs).urdu_text, ErrorPrefix)
          THEN <<>> ELSE <<Head(rs).urdu_text>>) \o KeptUrdu(Tail(rs))

\* [r['english_translation'] for r in results
\*      if not r['english_translation'].startswith('[Error')]
RECURSIVE KeptEnglish(_)
KeptEnglish(rs) ==
    IF Len(rs) = 0 THEN <<>>
    ELSE (IF StartsWith(Head(rs).english_translation, ErrorPrefix)
          THEN <<>> ELSE <<Head(rs).english_translation>>)
             \o KeptEnglish(Tail(rs))

\* r.get(key, 0)
GetOr0(r, key) == IF key \in DOMAIN r THEN r[key] ELSE 0

RECURSIVE SumGet(_, _)
\* sum(r.get(key, 0) for r in results)
SumGet(rs, key) ==
    IF Len(rs) = 0 THEN 0 ELSE GetOr0(Head(rs), key) + SumGet(Tail(rs), key)

\* the dict file_data; duration_seconds = duration_ms / 1000 is kept as the
\* number of milliseconds
FileData(path, rs, duration, now) ==
    [metadata |->
        [original_file |-> path,
         processed_file |-> <<"audio", PathStem(path), ".mp3">>,
         processing_date |-> now,
         duration_seconds |-> duration,
         total_chunks |-> Len(rs)],
     chunks |-> rs,
     summary |->
        [total_urdu_words |-> SumGet(rs, "urdu_word_count"),
         total_english_words |-> SumGet(rs, "english_word_count"),
         successful_chunks |-> Len(KeptUrdu(rs))]]

\* the paths save_processed_data writes for a source: audio_folder /
\* f"{file_stem}.mp3", urdu_folder / f"{file_stem}.txt", english_folder /
\* f"{file_stem}.txt" and base_folder / f"{file_stem}_detailed.json"
OutputPaths(path) ==
    { <<"processed_data/audio", PathStem(path), ".mp3">>,
      <<"processed_data/urdu", PathStem(path), ".txt">>,
      <<"processed_data/english", PathStem(path), ".txt">>,
      <<"processed_data", PathStem(path), "_detailed.json">> }

\* the points at which save_processed_data may raise: decoding or
\* exporting the audio, and writing each of the three other files
SaveSteps == <<"audio", "urdu", "english", "detailed">>
SaveFailures == {1, 2, 3, 4}

\* what a file holds, the empty text for a file that does not exist
ContentOr(file, empty) == IF file.exists THEN file.content ELSE empty

\* the outputs of a stem after the first n - 1 steps of SaveSteps were done
\* (variant: the texts and the chunks added to what the files held)
SavedUpToMerging(old, n, path, rs, fd) ==
    [audio |-> IF n > 1 THEN File(path) ELSE old.audio,
     urdu |-> IF n > 2
              THEN File(ContentOr(old.urdu, <<>>) \o Join(KeptUrdu(rs)))
              ELSE old.urdu,
     english |-> IF n > 3
                 THEN File(ContentOr(old.english, <<>>) \o Join(KeptEnglish(rs)))
                 ELSE old.english,
     detailed |-> IF n > 4
                  THEN File([fd EXCEPT !.chunks =
                                ContentOr(old.detailed, [chunks |-> <<>>]).chunks
                                    \o rs])
                  ELSE old.detailed]
SavedUpTo(old, n, path, rs, fd) ==
    [audio |-> IF n > 1 THEN File(path) ELSE old.audio,
     urdu |-> IF n > 2 THEN File(Join(KeptUrdu(rs))) ELSE old.urdu,
     english |-> IF n > 3 THEN File(Join(KeptEnglish(rs))) ELSE old.english,
     detailed |-> IF n > 4 THEN File(fd) ELSE old.detailed]

\* save_processed_data(audio_path, results, duration_ms), called by
\* process_file: it writes the four files and returns file_data, or raises
\* at one of its steps, with the files of the earlier steps written
\* (variant: a failed step skipped and the call going on to its return)
save_processed_data_errors_ignored ==
    /\ pc = "save_processed_data"
    /\ LET stem == PathStem(audio_path)
           fd == FileData(audio_path, results, audio_len, clock)
       IN  /\ \E n \in SaveFailures \cup {Len(SaveSteps) + 1} :
                 outputs' = [outputs EXCEPT
                    ![stem] = SavedUpTo(@, n, audio_path, results, fd)]
           /\ file_data' = fd
           /\ clock' = clock + 1
           /\ pc' = "update_metadata"
    /\ UNCHANGED <<entry, chunkVars, remoteVars, retryVars, batchVars,
                   audio_path, metadata, ledger_file, call_log, ledger0,
                   extVars>>
save_processed_data ==
    /\ pc = "save_processed_data"
    /\ LET stem == PathStem(audio_path)
           fd == FileData(audio_path, results, audio_len, clock)
       IN  \/ /\ outputs' = [outputs EXCEPT
                    ![stem] = SavedUpTo(@, Len(SaveSteps) + 1, audio_path,
                                        results, fd)]
              /\ file_data' = fd
              /\ clock' = clock + 1
              /\ pc' = "update_metadata"
              /\ UNCHANGED exc
           \/ \E n \in SaveFailures :
                 /\ outputs' = [outputs EXCEPT
                       ![stem] = SavedUpTo(@, n, audio_path, results, fd)]
                 /\ exc' = Failure(SaveSteps[n], 0)
                 /\ pc' = "process_file_except"
                 /\ UNCHANGED <<file_data, clock,
                   ledger0>>
    /\ UNCHANGED <<entry, chunkVars, fault_budget, file_pos, transcription,
                   translation, remote_log, retryVars, batchVars, audio_path,
                   metadata, ledger_file, call_log,
                   ledger0>>
    /\ UNCHANGED extVars

(***************************************************************************)
(* update_metadata                                                         *)
(***************************************************************************)
\* "Load existing metadata": the document of a file that exists, has a size
\* above 0 and parses; the zero-state otherwise
LoadMetadata(file) ==
    IF file.kind = "json"
    THEN [isdict |-> file.isdict, doc |-> file.doc]
    ELSE [isdict |-> TRUE, doc |-> ZeroState]

\* whether the statements of "Update metadata" and "Add to processing
\* history" run without a KeyError or TypeError
CanUpdate(md) ==
    /\ md.isdict
    /\ "total_files" \in DOMAIN md.doc
    /\ "total_duration" \in DOMAIN md.doc
    /\ "processing_history" \in DOMAIN md.doc

\* the entry appended to processing_history
HistoryEntry(fd, now) ==
    [date |-> now,
     filename |-> PathName(fd.metadata.original_file),
     duration |-> fd.metadata.duration_seconds,
     chunks |-> fd.metadata.total_chunks]

\* processing_history after the append
\* (variant: the entry put first)
HistoryPrepend(history, e) == <<e>> \o history
HistoryAppend(history, e) == Append(history, e)

\* total_files after the += 1
\* (variant: the count left as it was)
CountKept(n) == n
CountUp(n) == n + 1

\* the document after the updates: two datetime.now() calls, at now and
\* now + 1
UpdatedDoc(doc, fd, now) ==
    [key \in DOMAIN doc \cup {"last_processed"} |->
        CASE key = "total_files" -> CountUp(doc.total_files)
          [] key = "total_duration" ->
                doc.total_duration + fd.metadata.duration_seconds
          [] key = "last_processed" -> now
          [] key = "processing_history" ->
                HistoryAppend(doc.processing_history, HistoryEntry(fd, now + 1))
          [] OTHER -> doc[key]]

\* the caller's record of a call of update_metadata
CallRecord(fd, ok) ==
    [op |-> "update_metadata",
     filename |-> PathName(fd.metadata.original_file),
     duration |-> fd.metadata.duration_seconds,
     chunks |-> fd.metadata.total_chunks,
     ok |-> ok]

\* where update_metadata returns to
AfterUpdateMetadata ==
    IF entry \in ProcessFileCallers THEN "process_file_return" ELSE "caller"
\* where an exception of update_metadata goes to
AfterUpdateMetadataRaised ==
    IF entry \in ProcessFileCallers THEN "process_file_except" ELSE "caller"

\* "Load existing metadata"
update_metadata_load ==
    /\ pc = "update_metadata"
    /\ metadata' = LoadMetadata(ledger_file)
    /\ pc' = "update_metadata_update"
    /\ UNCHANGED <<entry, chunkVars, remoteVars, retryVars, batchVars,
                   audio_path, file_data, outputs, ledger_file, clock, call_log,
                   ledger0>>
    /\ UNCHANGED extVars

\* "Update metadata" and "Add to processing history", in memory; a document
\* that is no dict or lacks a key raises here, before anything is written
update_metadata_update ==
    /\ pc = "update_metadata_update"
    /\ IF CanUpdate(metadata)
       THEN /\ metadata' = [metadata EXCEPT
                               !.doc = UpdatedDoc(@, file_data, clock)]
            /\ clock' = clock + 2
            /\ pc' = "update_metadata_save"
            /\ UNCHANGED <<exc, call_log>>
       ELSE /\ exc' = Failure("update_metadata", 0)
            /\ call_log' = Append(call_log, CallRecord(file_data, FALSE))
            /\ pc' = AfterUpdateMetadataRaised
            /\ UNCHANGED <<metadata, clock>>
    /\ UNCHANGED <<entry, chunkVars, fault_budget, file_pos, transcription,
                   translation, remote_log, retryVars, batchVars, audio_path,
                   file_data, outputs, ledger_file,
                   ledger0>>
    /\ UNCHANGED extVars

\* "Save updated metadata": open(metadata_file, 'w') and json.dump
update_metadata_save ==
    /\ pc = "update_metadata_save"
    /\ ledger_file' = LedgerJson(metadata.doc)
    /\ call_log' = Append(call_log, CallRecord(file_data, TRUE))
    /\ pc' = AfterUpdateMetadata
    /\ UNCHANGED <<entry, chunkVars, remoteVars, retryVars, batchVars,
                   audio_path, file_data, metadata, outputs, clock,
                   ledger0>>
    /\ UNCHANGED extVars

(***************************************************************************)
(* process_file                                                            *)
(***************************************************************************)
\* start_time = datetime.now(); self.chunk_audio(audio_path) with the
\* default chunk size and overlap
process_file_begin ==
    /\ pc = "process_file"
    /\ clock' = clock + 1
    /\ chunk_size_ms' = DefaultChunkSizeMs
    /\ overlap_ms' = DefaultOverlapMs
    /\ pc' = "chunk_audio"
    /\ UNCHANGED <<entry, decodable, audio_len, start_ms, chunks, chunk_metadata,
                   remoteVars, retryVars, batchVars, audio_path, file_data,
                   metadata, outputs, ledger_file, call_log,
                   ledger0>>
    /\ UNCHANGED extVars

\* chunk_audio returned: self.process_chunks(chunks, chunk_metadata)
\* (variant: a file without windows taken as a failure)
process_file_chunked_rejects_empty ==
    /\ pc = "chunk_audio_returned"
    /\ entry \in ProcessFileCallers
    /\ i' = 0
    /\ results' = <<>>
    /\ IF chunks = <<>>
       THEN /\ exc' = Failure("no_windows", 0)
            /\ pc' = "process_file_except"
       ELSE /\ pc' = "process_chunks"
            /\ UNCHANGED exc
    /\ UNCHANGED <<entry, chunkVars, fault_budget, file_pos, transcription,
                   translation, remote_log, retryVars, temp_files, storeVars,
                   extVars>>
process_file_chunked ==
    /\ pc = "chunk_audio_returned"
    /\ entry \in ProcessFileCallers
    /\ i' = 0
    /\ results' = <<>>
    /\ pc' = "process_chunks"
    /\ UNCHANGED <<entry, chunkVars, remoteVars, retryVars, temp_files, storeVars>>
    /\ UNCHANGED extVars

\* chunk_audio raised: into the except clause of process_file
\* (variant: the error dropped and the file processed as one without windows)
process_file_chunk_audio_ignored ==
    /\ pc = "chunk_audio_raised"
    /\ entry \in ProcessFileCallers
    /\ i' = 0
    /\ results' = <<>>
    /\ pc' = "process_chunks"
    /\ UNCHANGED <<entry, chunkVars, remoteVars, retryVars, temp_files, storeVars,
                   extVars>>
process_file_chunk_audio_raised ==
    /\ pc = "chunk_audio_raised"
    /\ entry \in ProcessFileCallers
    /\ exc' = Failure("chunk_audio", 0)
    /\ pc' = "process_file_except"
    /\ UNCHANGED <<entry, chunkVars, fault_budget, file_pos, transcription,
                   translation, remote_log, retryVars, batchVars, storeVars>>
    /\ UNCHANGED extVars

\* except Exception as e: logger.error(...); raise
process_file_except ==
    /\ pc = "process_file_except"
    /\ pc' = "process_file_raised"
    /\ UNCHANGED <<entry, chunkVars, remoteVars, retryVars, batchVars, storeVars>>
    /\ UNCHANGED extVars

\* processing_time = datetime.now() - start_time; return file_data
process_file_return ==
    /\ pc = "process_file_return"
    /\ clock' = clock + 1
    /\ pc' = "process_file_returned"
    /\ UNCHANGED <<entry, chunkVars, remoteVars, retryVars, batchVars,
                   audio_path, file_data, metadata, outputs, ledger_file,
                   call_log,
                   ledger0>>
    /\ UNCHANGED extVars

StoreIdle ==
    /\ audio_path = NoPath
    /\ file_data = NoFileData
    /\ metadata = NoMetadata
    /\ outputs = [stem \in Stems |-> NoOutputs]
    /\ ledger_file = LedgerAbsent
    /\ clock = 0
    /\ call_log = <<>>
    /\ ledger0 = ledger_file

(***************************************************************************)
(* process_dataset_folder                                                  *)
(***************************************************************************)
\* audio_extensions = ['.m4a', '.mp3', '.wav', '.flac', '.aac']
AudioExtensions == <<".m4a", ".mp3", ".wav", ".flac", ".aac">>

\* the orders in which a directory walk may yield the files of a set
Orderings(S) ==
    {seq \in [1..Cardinality(S) -> S] :
        \A a, b \in 1..Cardinality(S) : a # b => seq[a] # seq[b]}

RECURSIVE Discovered(_, _)
\* for ext in audio_extensions[k:]: audio_files.extend(rglob(f"*{ext}"))
Discovered(files, k) ==
    IF k > Len(AudioExtensions) THEN {<<>>}
    ELSE {a \o b : a \in Orderings({f \in files : f.ext = AudioExtensions[k]}),
                   b \in Discovered(files, k + 1)}

\* the durations of the files of the dataset: an empty file and a file of
\* one window
DatasetDurations == {0, 2000}

\* a call of process_file(path): a new frame, whose locals are unset; the
\* history records the call and what it found in processed_data/
CallProcessFile(path) ==
    /\ audio_path' = path
    /\ invocations' = Append(invocations, [path |-> path, outcome |-> "running"])
    /\ snap' = [outputs |-> outputs, ledger |-> ledger_file]
    /\ file_data' = NoFileData
    /\ metadata' = NoMetadata
    /\ exc' = NoError
    /\ start_ms' = 0
    /\ chunks' = <<>>
    /\ chunk_metadata' = <<>>
    /\ i' = 0
    /\ results' = <<>>
    /\ pc' = "process_file"

\* the history with the outcome of the last call filled in
Ended(calls, outcome) == [calls EXCEPT ![Len(calls)].outcome = outcome]

\* if not dataset_path.exists(): raise FileNotFoundError; the discovery by
\* extension; if not audio_files: return
\* (variant: the existence of the root not checked)
process_dataset_folder_begin_unchecked ==
    /\ pc = "process_dataset_folder"
    /\ \E found \in Discovered(dataset.files, 1) :
          /\ audio_files' = found
          /\ pc' = IF found = <<>> THEN "process_dataset_folder_returned"
                   ELSE "dataset_loop"
    /\ file_idx' = 0
    /\ UNCHANGED <<entry, chunkVars, remoteVars, retryVars, batchVars, storeVars,
                   dataset, invocations, snap, peerVars, stampVars>>
process_dataset_folder_begin ==
    /\ pc = "process_dataset_folder"
    /\ IF ~dataset.exists
       THEN /\ exc' = Failure("FileNotFoundError", 0)
            /\ pc' = "process_dataset_folder_raised"
            /\ UNCHANGED audio_files
       ELSE /\ \E found \in Discovered(dataset.files, 1) :
                  /\ audio_files' = found
                  /\ pc' = IF found = <<>> THEN "process_dataset_folder_returned"
                           ELSE "dataset_loop"
            /\ UNCHANGED exc
    /\ file_idx' = 0
    /\ UNCHANGED <<entry, chunkVars, fault_budget, file_pos, transcription,
                   translation, remote_log, retryVars, batchVars, storeVars,
                   dataset, invocations, snap, peerVars, stampVars>>

\* for i, audio_file in enumerate(audio_files, 1): self.process_file(audio_file)
\* on the next file, which the codec can decode or not and which has some
\* duration; after the last file the function returns
dataset_loop ==
    /\ pc = "dataset_loop"
    /\ IF file_idx < Len(audio_files)
       THEN /\ CallProcessFile(audio_files[file_idx + 1])
            /\ decodable' \in BOOLEAN
            /\ audio_len' \in DatasetDurations
       ELSE /\ pc' = "process_dataset_folder_returned"
            /\ UNCHANGED <<decodable, audio_len, start_ms, chunks, chunk_metadata,
                           exc, i, results, audio_path, file_data, metadata,
                           invocations, snap>>
    /\ UNCHANGED <<entry, chunk_size_ms, overlap_ms, fault_budget, file_pos,
                   transcription, translation, remote_log, retryVars, temp_files,
                   outputs, ledger_file, clock, call_log, ledger0, dataset,
                   audio_files, file_idx, peerVars, stampVars>>

\* process_file returned: its value is dropped, on to the next file
dataset_file_returned ==
    /\ pc = "process_file_returned"
    /\ entry = "process_dataset_folder"
    /\ invocations' = Ended(invocations, "returned")
    /\ file_idx' = file_idx + 1
    /\ pc' = "dataset_loop"
    /\ UNCHANGED <<entry, chunkVars, remoteVars, retryVars, batchVars, storeVars,
                   dataset, audio_files, snap, peerVars, stampVars>>

\* except Exception as e: logger.error(...); continue
\* (variant: the exception of the file raised to the caller)
dataset_file_raised_reraise ==
    /\ pc = "process_file_raised"
    /\ entry = "process_dataset_folder"
    /\ invocations' = Ended(invocations, "raised")
    /\ pc' = "process_dataset_folder_raised"
    /\ UNCHANGED <<entry, chunkVars, remoteVars, retryVars, batchVars, storeVars,
                   dataset, audio_files, file_idx, snap, peerVars, stampVars>>
dataset_file_raised ==
    /\ pc = "process_file_raised"
    /\ entry = "process_dataset_folder"
    /\ invocations' = Ended(invocations, "raised")
    /\ file_idx' = file_idx + 1
    /\ pc' = "dataset_loop"
    /\ UNCHANGED <<entry, chunkVars, remoteVars, retryVars, batchVars, storeVars,
                   dataset, audio_files, snap, peerVars, stampVars>>

NoSnap == [unset |-> TRUE]

WalkIdle ==
    /\ dataset = [exists |-> TRUE, files |-> {}]
    /\ audio_files = <<>>
    /\ file_idx = 0
    /\ invocations = <<>>
    /\ snap = NoSnap

(***************************************************************************)
(* main(), choice "1": process_file on one path, the script run again on   *)
(* the same path afterwards.                                               *)
(***************************************************************************)
\* the script is run at most MaxRuns times
MaxRuns == 2

\* pipeline.process_file(audio_path)
main_process_file ==
    /\ pc = "main"
    /\ Len(invocations) < MaxRuns
    /\ CallProcessFile(audio_path)
    /\ UNCHANGED <<entry, decodable, audio_len, chunk_size_ms, overlap_ms,
                   fault_budget, file_pos, transcription, translation,
                   remote_log, retryVars, temp_files, outputs, ledger_file,
                   clock, call_log, ledger0, dataset, audio_files, file_idx,
                   peerVars, stampVars>>

\* print("Successfully processed") or, in the except clause, print the error
main_process_file_ended ==
    /\ pc \in {"process_file_returned", "process_file_raised"}
    /\ entry = "main"
    /\ invocations' =
          Ended(invocations,
                IF pc = "process_file_returned" THEN "returned" ELSE "raised")
    /\ pc' = "main"
    /\ UNCHANGED <<entry, chunkVars, remoteVars, retryVars, batchVars, storeVars,
                   dataset, audio_files, file_idx, snap, peerVars, stampVars>>

(***************************************************************************)
(* update_metadata run by several processes at once on one metadata.json,  *)
(* statement by statement, and the viewer's load_processed_data            *)
(* (src/streamlit_app.py) reading the file in between.                     *)
(***************************************************************************)
\* the number of processes that call update_metadata
MaxWriters == 2
Writers == 1..MaxWriters

\* metadata.json holding the first part of a document that is being written
LedgerPartial(doc) == [kind |-> "partial", doc |-> doc]

IdleWriter == [pc |-> "idle", file_data |-> NoFileData, metadata |-> NoMetadata]
NotRead == [kind |-> "unset"]

\* the positions between "Load existing metadata" and the end of the call
WriterBusyPcs == {"update", "open", "dump", "dump_rest"}

\* "Load existing metadata"
writer_load(w) ==
    /\ writers[w].pc = "update_metadata"
    /\ writers' = [writers EXCEPT ![w].metadata = LoadMetadata(ledger_file),
                                  ![w].pc = "update"]
    /\ overlapped' =
          (overlapped \/ \E v \in Writers \ {w} : writers[v].pc \in WriterBusyPcs)
    /\ UNCHANGED <<pc, entry, chunkVars, remoteVars, retryVars, batchVars,
                   storeVars, walkVars, reader_seen, stampVars>>

\* "Update metadata" and "Add to processing history", in memory
writer_update(w) ==
    /\ writers[w].pc = "update"
    /\ IF CanUpdate(writers[w].metadata)
       THEN /\ writers' =
                  [writers EXCEPT
                      ![w].metadata.doc = UpdatedDoc(@, writers[w].file_data, clock),
                      ![w].pc = "open"]
            /\ clock' = clock + 2
       ELSE /\ writers' = [writers EXCEPT ![w].pc = "raised"]
            /\ UNCHANGED clock
    /\ UNCHANGED <<pc, entry, chunkVars, remoteVars, retryVars, batchVars,
                   audio_path, file_data, metadata, outputs, ledger_file,
                   call_log, ledger0, walkVars, reader_seen, overlapped,
                   stampVars>>

\* open(metadata_file, 'w'): the file is cut to size 0
writer_open(w) ==
    /\ writers[w].pc = "open"
    /\ ledger_file' = LedgerEmpty
    /\ writers' = [writers EXCEPT ![w].pc = "dump"]
    /\ UNCHANGED <<pc, entry, chunkVars, remoteVars, retryVars, batchVars,
                   audio_path, file_data, metadata, outputs, clock, call_log,
                   ledger0, walkVars, reader_seen, overlapped, stampVars>>

\* json.dump(metadata, f, ...): the document reaches the file at once when
\* the file is closed, or its first part is flushed before the rest.  The
\* bytes go to the start of the file: over a file another process has
\* written since the open, they leave this document or this document
\* followed by the end of a longer one.
writer_dump(w) ==
    /\ writers[w].pc = "dump"
    /\ LET doc == writers[w].metadata.doc
       IN  IF ledger_file = LedgerEmpty
           THEN \/ /\ ledger_file' = LedgerJson(doc)
                   /\ writers' = [writers EXCEPT ![w].pc = "returned"]
                \/ /\ ledger_file' = LedgerPartial(doc)
                   /\ writers' = [writers EXCEPT ![w].pc = "dump_rest"]
           ELSE /\ ledger_file' \in {LedgerJson(doc), LedgerUnparsable}
                /\ writers' = [writers EXCEPT ![w].pc = "returned"]
    /\ UNCHANGED <<pc, entry, chunkVars, remoteVars, retryVars, batchVars,
                   audio_path, file_data, metadata, outputs, clock, call_log,
                   ledger0, walkVars, reader_seen, overlapped, stampVars>>

\* the rest of the document is written and the file closed; after the first
\* part of this document it completes the document, after anything another
\* process has done to the file in between it does not
writer_dump_rest(w) ==
    /\ writers[w].pc = "dump_rest"
    /\ LET doc == writers[w].metadata.doc
       IN  ledger_file' = IF ledger_file = LedgerPartial(doc)
                          THEN LedgerJson(doc)
                          ELSE LedgerUnparsable
    /\ writers' = [writers EXCEPT ![w].pc = "returned"]
    /\ UNCHANGED <<pc, entry, chunkVars, remoteVars, retryVars, batchVars,
                   audio_path, file_data, metadata, outputs, clock, call_log,
                   ledger0, walkVars, reader_seen, overlapped, stampVars>>

\* load_processed_data: metadata = json.load(f) of a file that exists and
\* has a size above 0; the defaults of the except clause for a file that
\* does not parse; the defaults of the else branch otherwise
ViewerMetadata(file) ==
    IF file.kind = "json"
    THEN [kind |-> "document", isdict |-> file.isdict, doc |-> file.doc]
    ELSE IF file.kind \in {"absent", "empty"}
    THEN [kind |-> "default", total_files |-> 0,
          last_processed |-> "No processing yet"]
    ELSE [kind |-> "default", total_files |-> 0, last_processed |-> "Unknown"]

\* the viewer loads metadata.json, at any moment
reader_load ==
    /\ reader_seen = NotRead
    /\ entry = "concurrent"
    /\ reader_seen' = ViewerMetadata(ledger_file)
    /\ UNCHANGED <<pc, entry, chunkVars, remoteVars, retryVars, batchVars,
                   storeVars, walkVars, writers, overlapped, stampVars>>

PeerIdle ==
    /\ writers = [w \in Writers |-> IdleWriter]
    /\ reader_seen = NotRead
    /\ overlapped = FALSE

(***************************************************************************)
(* ms_to_timestamp called directly.                                        *)
(***************************************************************************)
call_ms_to_timestamp ==
    /\ pc = "ms_to_timestamp"
    /\ ts_out' = ms_to_timestamp(ts_ms)
    /\ pc' = "ms_to_timestamp_returned"
    /\ UNCHANGED <<entry, chunkVars, remoteVars, retryVars, batchVars, storeVars,
                   walkVars, peerVars, ts_ms>>

StampIdle ==
    /\ ts_ms = 0
    /\ ts_out = NoText

(***************************************************************************)
(* process_chunk_with_retries called directly on an exported payload, for  *)
(* every max_retries in -1..MaxRetries and every number of failing         *)
(* attempts in 0..MaxFaults.                                               *)
(***************************************************************************)
InitRetry ==
    /\ pc = "retry_loop"
    /\ entry = "process_chunk_with_retries"
    /\ decodable = TRUE
    /\ audio_len = 0
    /\ chunk_size_ms = DefaultChunkSizeMs
    /\ overlap_ms = DefaultOverlapMs
    /\ start_ms = 0
    /\ chunks = <<>>
    /\ chunk_metadata = <<>>
    /\ RemoteIdle
    /\ fault_budget \in 0..MaxFaults
    /\ max_retries \in (-1)..MaxRetries
    /\ attempt = 0
    /\ retry_result = [kind |-> "unset"]
    /\ BatchIdle
    /\ StoreIdle
    /\ WalkIdle
    /\ PeerIdle
    /\ StampIdle

NextRetry ==
    retry_loop \/ retry_transcription \/ retry_translation \/ retry_except

SpecRetry == InitRetry /\ [][NextRetry]_vars

(***************************************************************************)
(* chunk_audio called directly, with every bounded choice of parameters    *)
(* and the 65-second and 52-second files under the default parameters.     *)
(***************************************************************************)
ChunkerInputs ==
    ((0..MaxDurationMs) \X (1..MaxChunkSizeMs) \X (0..MaxChunkSizeMs))
        \cup {<<65000, DefaultChunkSizeMs, DefaultOverlapMs>>,
              <<52000, DefaultChunkSizeMs, DefaultOverlapMs>>}

InitChunker ==
    /\ pc = "chunk_audio"
    /\ entry = "chunk_audio"
    /\ decodable \in BOOLEAN
    /\ \E in \in ChunkerInputs :
          /\ audio_len = in[1]
          /\ chunk_size_ms = in[2]
          /\ overlap_ms = in[3]
    /\ start_ms = 0
    /\ chunks = <<>>
    /\ chunk_metadata = <<>>
    /\ RemoteIdle
    /\ fault_budget = 0
    /\ RetryIdle
    /\ BatchIdle
    /\ StoreIdle
    /\ WalkIdle
    /\ PeerIdle
    /\ StampIdle

NextChunker == chunk_audio_load \/ chunk_audio_iter \/ chunk_audio_return

SpecChunker == InitChunker /\ [][NextChunker]_vars

(***************************************************************************)
(* process_file called once on a source file of the dataset, for every     *)
(* source, durations that give 0..MaxWindows windows under the default     *)
(* parameters, and a ledger left by earlier runs.                          *)
(***************************************************************************)
\* durations: k full steps for k in 0..MaxWindows - 1, and 2 seconds more
\* than MaxWindows - 1 full steps (MaxWindows windows, the last two cut
\* short)
FileDurations ==
    {k * (DefaultChunkSizeMs - DefaultOverlapMs) : k \in 0..(MaxWindows - 1)}
        \cup {(MaxWindows - 1) * (DefaultChunkSizeMs - DefaultOverlapMs) + 2000}

\* a ledger as an earlier successful run on a 2-second file left it
PriorFileData ==
    FileData([dir |-> "Dataset", stem |-> "intro", ext |-> ".mp3"], <<>>, 2000, 1)
PriorLedger == LedgerJson(UpdatedDoc(ZeroState, PriorFileData, 2))

\* metadata.json with content that does not parse, and with JSON documents
\* that are not ledgers
ForeignLedgers ==
    { LedgerUnparsable,
      LedgerJsonList,
      LedgerJson([version |-> 1]),
      LedgerJson([total_files |-> 2, total_duration |-> 40000]) }

\* the sources process_file is called on, and the ledgers it finds
FileSources == {src \in Sources : src.dir = "Dataset"}
FileLedgers == {LedgerAbsent, PriorLedger, LedgerJson([version |-> 1])}

InitFile ==
    /\ pc = "process_file"
    /\ entry = "process_file"
    /\ decodable \in BOOLEAN
    /\ audio_len \in FileDurations
    /\ chunk_size_ms = DefaultChunkSizeMs
    /\ overlap_ms = DefaultOverlapMs
    /\ start_ms = 0
    /\ chunks = <<>>
    /\ chunk_metadata = <<>>
    /\ RemoteIdle
    /\ fault_budget = 0
    /\ RetryIdle
    /\ BatchIdle
    /\ audio_path \in FileSources
    /\ file_data = NoFileData
    /\ metadata = NoMetadata
    /\ outputs = [stem \in Stems |-> NoOutputs]
    /\ ledger_file \in FileLedgers
    /\ clock = 4
    /\ call_log = <<>>
    /\ ledger0 = ledger_file
    /\ WalkIdle
    /\ PeerIdle
    /\ StampIdle

NextFile ==
    \/ process_file_begin
    \/ chunk_audio_load
    \/ chunk_audio_iter
    \/ chunk_audio_return
    \/ process_file_chunked
    \/ process_file_chunk_audio_raised
    \/ process_chunks_next
    \/ process_chunks_export
    \/ process_chunks_transcription
    \/ process_chunks_translation
    \/ process_chunks_except
    \/ process_chunks_finally
    \/ save_processed_data
    \/ update_metadata_load
    \/ update_metadata_update
    \/ update_metadata_save
    \/ process_file_except
    \/ process_file_return

SpecFile == InitFile /\ [][NextFile]_vars

(***************************************************************************)
(* process_file called on one source with no ledger yet: the runs compared *)
(* for what the script flag of their results influences.                   *)
(***************************************************************************)
InitScript ==
    /\ pc = "process_file"
    /\ entry = "process_file"
    /\ decodable \in BOOLEAN
    /\ audio_len \in FileDurations
    /\ chunk_size_ms = DefaultChunkSizeMs
    /\ overlap_ms = DefaultOverlapMs
    /\ start_ms = 0
    /\ chunks = <<>>
    /\ chunk_metadata = <<>>
    /\ RemoteIdle
    /\ fault_budget = 0
    /\ RetryIdle
    /\ BatchIdle
    /\ audio_path = [dir |-> "Dataset", stem |-> "talk", ext |-> ".m4a"]
    /\ file_data = NoFileData
    /\ metadata = NoMetadata
    /\ outputs = [stem \in Stems |-> NoOutputs]
    /\ ledger_file = LedgerAbsent
    /\ clock = 4
    /\ call_log = <<>>
    /\ ledger0 = ledger_file
    /\ WalkIdle
    /\ PeerIdle
    /\ StampIdle

SpecScript == InitScript /\ [][NextFile]_vars

(***************************************************************************)
(* update_metadata called up to MaxCalls times in a row, one call per      *)
(* aggregated file, starting from a ledger that is absent, empty, corrupt  *)
(* or not a ledger document.                                               *)
(***************************************************************************)
\* the file_data of the aggregated files: a source, a duration and a
\* number of chunks
LedgerFileData ==
    { FileData(src, <<>>, d, 0) : src \in Sources, d \in {0, 2000} }

\* the caller calls update_metadata(file_data)
call_update_metadata ==
    /\ pc = "caller"
    /\ entry = "update_metadata"
    /\ Len(call_log) < MaxCalls
    /\ \E fd \in LedgerFileData : file_data' = fd
    /\ metadata' = NoMetadata
    /\ exc' = NoError
    /\ pc' = "update_metadata"
    /\ UNCHANGED <<entry, chunkVars, fault_budget, file_pos, transcription,
                   translation, remote_log, retryVars, batchVars, audio_path,
                   outputs, ledger_file, clock, call_log,
                   ledger0>>
    /\ UNCHANGED extVars

InitLedger ==
    /\ pc = "caller"
    /\ entry = "update_metadata"
    /\ decodable = TRUE
    /\ audio_len = 0
    /\ chunk_size_ms = DefaultChunkSizeMs
    /\ overlap_ms = DefaultOverlapMs
    /\ start_ms = 0
    /\ chunks = <<>>
    /\ chunk_metadata = <<>>
    /\ RemoteIdle
    /\ fault_budget = 0
    /\ RetryIdle
    /\ BatchIdle
    /\ audio_path = NoPath
    /\ file_data = NoFileData
    /\ metadata = NoMetadata
    /\ outputs = [stem \in Stems |-> NoOutputs]
    /\ ledger_file \in {LedgerAbsent, LedgerEmpty} \cup ForeignLedgers
    /\ clock = 0
    /\ call_log = <<>>
    /\ ledger0 = ledger_file
    /\ WalkIdle
    /\ PeerIdle
    /\ StampIdle

NextLedger ==
    \/ call_update_metadata
    \/ update_metadata_load
    \/ update_metadata_update
    \/ update_metadata_save

SpecLedger == InitLedger /\ [][NextLedger]_vars

(***************************************************************************)
(* process_dataset_folder called once on a dataset root that exists or     *)
(* not, with up to MaxFiles of the source files under it, every file       *)
(* decodable or not and empty or one window long.                          *)
(***************************************************************************)
\* at most MaxFiles files are under the dataset root
MaxFiles == 2

ChunkIdle ==
    /\ decodable = TRUE
    /\ audio_len = 0
    /\ chunk_size_ms = DefaultChunkSizeMs
    /\ overlap_ms = DefaultOverlapMs
    /\ start_ms = 0
    /\ chunks = <<>>
    /\ chunk_metadata = <<>>

\* a root that does not exist, and roots with some of the source files
Datasets ==
    {[exists |-> FALSE, files |-> {}]}
        \cup {[exists |-> TRUE, files |-> F] :
                 F \in {G \in SUBSET Sources : Cardinality(G) <= MaxFiles}}

InitDataset ==
    /\ pc = "process_dataset_folder"
    /\ entry = "process_dataset_folder"
    /\ ChunkIdle
    /\ RemoteIdle
    /\ fault_budget = 0
    /\ RetryIdle
    /\ BatchIdle
    /\ audio_path = NoPath
    /\ file_data = NoFileData
    /\ metadata = NoMetadata
    /\ outputs = [stem \in Stems |-> NoOutputs]
    /\ ledger_file \in FileLedgers
    /\ clock = 4
    /\ call_log = <<>>
    /\ ledger0 = ledger_file
    /\ dataset \in Datasets
    /\ audio_files = <<>>
    /\ file_idx = 0
    /\ invocations = <<>>
    /\ snap = NoSnap
    /\ PeerIdle
    /\ StampIdle

\* the steps of process_file and of what it calls
ProcessFileSteps ==
    \/ process_file_begin
    \/ chunk_audio_load
    \/ chunk_audio_iter
    \/ chunk_audio_return
    \/ process_file_chunked
    \/ process_file_chunk_audio_raised
    \/ process_chunks_next
    \/ process_chunks_export
    \/ process_chunks_transcription
    \/ process_chunks_translation
    \/ process_chunks_except
    \/ process_chunks_finally
    \/ save_processed_data
    \/ update_metadata_load
    \/ update_metadata_update
    \/ update_metadata_save
    \/ process_file_except
    \/ process_file_return

NextDataset ==
    \/ process_dataset_folder_begin
    \/ dataset_loop
    \/ dataset_file_returned
    \/ dataset_file_raised
    \/ ProcessFileSteps

SpecDataset == InitDataset /\ [][NextDataset]_vars

(***************************************************************************)
(* main() run up to MaxRuns times on the same source file.                 *)
(***************************************************************************)
InitRerun ==
    /\ pc = "main"
    /\ entry = "main"
    /\ decodable \in BOOLEAN
    /\ audio_len \in DatasetDurations
    /\ chunk_size_ms = DefaultChunkSizeMs
    /\ overlap_ms = DefaultOverlapMs
    /\ start_ms = 0
    /\ chunks = <<>>
    /\ chunk_metadata = <<>>
    /\ RemoteIdle
    /\ fault_budget = 0
    /\ RetryIdle
    /\ BatchIdle
    /\ audio_path \in FileSources
    /\ file_data = NoFileData
    /\ metadata = NoMetadata
    /\ outputs = [stem \in Stems |-> NoOutputs]
    /\ ledger_file = LedgerAbsent
    /\ clock = 0
    /\ call_log = <<>>
    /\ ledger0 = ledger_file
    /\ WalkIdle
    /\ PeerIdle
    /\ StampIdle

NextRerun ==
    \/ main_process_file
    \/ main_process_file_ended
    \/ ProcessFileSteps

SpecRerun == InitRerun /\ [][NextRerun]_vars

(***************************************************************************)
(* MaxWriters processes call update_metadata once each on one              *)
(* metadata.json, and the viewer loads the file once, at any moment.       *)
(***************************************************************************)
\* the file_data the concurrent calls are made with
WriterFileData == {FileData(src, <<>>, 2000, 0) : src \in FileSources}

InitWriters ==
    /\ pc = "concurrent"
    /\ entry = "concurrent"
    /\ ChunkIdle
    /\ RemoteIdle
    /\ fault_budget = 0
    /\ RetryIdle
    /\ BatchIdle
    /\ audio_path = NoPath
    /\ file_data = NoFileData
    /\ metadata = NoMetadata
    /\ outputs = [stem \in Stems |-> NoOutputs]
    /\ ledger_file \in {LedgerAbsent, PriorLedger}
    /\ clock = 4
    /\ call_log = <<>>
    /\ ledger0 = ledger_file
    /\ WalkIdle
    /\ writers \in [Writers ->
                      {[pc |-> "update_metadata", file_data |-> fd,
                        metadata |-> NoMetadata] : fd \in WriterFileData}]
    /\ reader_seen = NotRead
    /\ overlapped = FALSE
    /\ StampIdle

NextWriters ==
    \/ \E w \in Writers : writer_load(w)
    \/ \E w \in Writers : writer_update(w)
    \/ \E w \in Writers : writer_open(w)
    \/ \E w \in Writers : writer_dump(w)
    \/ \E w \in Writers : writer_dump_rest(w)
    \/ reader_load

SpecWriters == InitWriters /\ [][NextWriters]_vars

(***************************************************************************)
(* ms_to_timestamp called directly, on times of up to MaxMinutes minutes.  *)
(***************************************************************************)
MaxMinutes == 100

\* minutes of one, two and three digits; seconds and milliseconds at both
\* ends of their ranges and around the places where rounding would differ
\* from truncation; 65432 is 1 minute, 5 seconds, 432 ms
TimestampInputs ==
    {m * 60000 + sec * 1000 + ms :
        m \in {0, 1, 9, 10, 99, MaxMinutes},
        sec \in {0, 5, 59},
        ms \in {0, 9, 10, 432, 995, 999}}

InitTimestamp ==
    /\ pc = "ms_to_timestamp"
    /\ entry = "ms_to_timestamp"
    /\ ChunkIdle
    /\ RemoteIdle
    /\ fault_budget = 0
    /\ RetryIdle
    /\ BatchIdle
    /\ StoreIdle
    /\ WalkIdle
    /\ PeerIdle
    /\ ts_ms \in TimestampInputs
    /\ ts_out = NoText

NextTimestamp == call_ms_to_timestamp

SpecTimestamp == InitTimestamp /\ [][NextTimestamp]_vars

(***************************************************************************)
(* Properties of chunk_audio (checked under SpecChunker).                  *)
(***************************************************************************)
ChunkAudioReturned == pc = "chunk_audio_returned" /\ entry = "chunk_audio"

\* the reference windowing: the number of k >= 0 with k * step < total
RefWindowCount(total, step) == (total + step - 1) \div step

\* C8: for total_duration_ms >= 0 and chunk_size_ms > overlap_ms > 0 the
\* windows chunk_audio returns cover [0, total_duration_ms) without a gap
\* (each window after the first starts at or before the end of its
\* predecessor), the first window starts at 0 and the last window ends at
\* total_duration_ms exactly.
C8_WindowsCoverTimeline ==
    (ChunkAudioReturned /\ chunk_size_ms > overlap_ms /\ overlap_ms > 0) =>
        /\ \A t \in 0..(audio_len - 1) :
              \E w \in 1..Len(chunks) :
                  chunks[w].start_ms <= t /\ t < chunks[w].end_ms
        /\ \A w \in 2..Len(chunks) : chunks[w].start_ms <= chunks[w - 1].end_ms
        /\ Len(chunks) > 0 =>
              /\ chunks[1].start_ms = 0
              /\ chunks[Len(chunks)].end_ms = audio_len

\* a returned call with overlap > 0, at least three windows and a last
\* window shorter than chunk_size_ms
C8_Witness ==
    /\ ChunkAudioReturned
    /\ chunk_size_ms > overlap_ms
    /\ overlap_ms > 0
    /\ Len(chunks) >= 3
    /\ chunk_metadata[Len(chunks)].duration_ms < chunk_size_ms

\* C9: for chunk_size_ms > overlap_ms >= 0 and step = chunk_size_ms -
\* overlap_ms, chunk_audio returns one window for each k >= 0 with
\* k * step < total_duration_ms, window k starting at k * step and ending at
\* min(start + chunk_size_ms, total_duration_ms), with the metadata of that
\* window; 65000 ms under 30000/5000 gives (0,30000), (25000,55000),
\* (50000,65000).
C9_AgreesWithReferenceWindowing ==
    (ChunkAudioReturned /\ chunk_size_ms > overlap_ms /\ overlap_ms >= 0) =>
        LET step == chunk_size_ms - overlap_ms
        IN  /\ Len(chunks) = RefWindowCount(audio_len, step)
            /\ Len(chunk_metadata) = Len(chunks)
            /\ \A w \in 1..Len(chunks) :
                  /\ chunks[w].start_ms = (w - 1) * step
                  /\ (w - 1) * step < audio_len
                  /\ chunks[w].end_ms =
                        Min(chunks[w].start_ms + chunk_size_ms, audio_len)
                  /\ chunk_metadata[w].duration_ms =
                        chunks[w].end_ms - chunks[w].start_ms
            /\ \A w \in 2..Len(chunks) :
                  chunks[w].start_ms - chunks[w - 1].start_ms = step
            /\ (audio_len = 65000 /\ chunk_size_ms = 30000 /\ overlap_ms = 5000) =>
                  chunks = << [start_ms |-> 0, end_ms |-> 30000],
                              [start_ms |-> 25000, end_ms |-> 55000],
                              [start_ms |-> 50000, end_ms |-> 65000] >>

\* the 65-second file under the default parameters, chunked into three
\* windows, the last one 15000 ms long
C9_Witness ==
    /\ ChunkAudioReturned
    /\ audio_len = 65000
    /\ chunk_size_ms = 30000
    /\ overlap_ms = 5000
    /\ Len(chunks) = 3
    /\ chunk_metadata[3].duration_ms = 15000

\* C10 as stated: for chunk_size_ms > overlap_ms >= 0 every window other
\* than the last has duration_ms = chunk_size_ms, and every pair of
\* consecutive windows overlaps by exactly overlap_ms.
C10_OnlyLastWindowShorter ==
    (ChunkAudioReturned /\ chunk_size_ms > overlap_ms /\ overlap_ms >= 0) =>
        \A w \in 1..(Len(chunks) - 1) :
            /\ chunk_metadata[w].duration_ms = chunk_size_ms
            /\ chunks[w].end_ms - chunks[w + 1].start_ms = overlap_ms

\* C10 as amended: for chunk_size_ms > overlap_ms >= 0 every window that
\* fits (start + chunk_size_ms <= total_duration_ms) has duration_ms =
\* chunk_size_ms and every other window ends at total_duration_ms; every
\* pair of consecutive windows (w, w+1) overlaps by
\* min(overlap_ms, total_duration_ms - start(w+1)), which is overlap_ms
\* exactly when window w fits.
C10_WindowsThatFitAreFull ==
    (ChunkAudioReturned /\ chunk_size_ms > overlap_ms /\ overlap_ms >= 0) =>
        /\ \A w \in 1..Len(chunks) :
              IF chunks[w].start_ms + chunk_size_ms <= audio_len
              THEN chunk_metadata[w].duration_ms = chunk_size_ms
              ELSE /\ chunks[w].end_ms = audio_len
                   /\ chunk_metadata[w].duration_ms < chunk_size_ms
        /\ \A w \in 1..(Len(chunks) - 1) :
              /\ chunks[w].end_ms - chunks[w + 1].start_ms =
                    Min(overlap_ms, audio_len - chunks[w + 1].start_ms)
              /\ (chunks[w].start_ms + chunk_size_ms <= audio_len) =>
                    chunks[w].end_ms - chunks[w + 1].start_ms = overlap_ms

\* a returned call in which a window that is not the last is shorter than
\* chunk_size_ms and overlaps its successor by less than overlap_ms
C10_Witness ==
    /\ ChunkAudioReturned
    /\ chunk_size_ms > overlap_ms
    /\ \E w \in 1..(Len(chunks) - 1) :
          /\ chunk_metadata[w].duration_ms < chunk_size_ms
          /\ chunks[w].end_ms - chunks[w + 1].start_ms < overlap_ms

(***************************************************************************)
(* Properties of process_chunk_with_retries (checked under SpecRetry).     *)
(***************************************************************************)
\* the requests of the log (its entries that are not sleeps)
Requests == SelectSeq(remote_log, LAMBDA ev : ev.op # "sleep")
\* attempts made: every attempt issues exactly one transcription request
AttemptsMade == Len(SelectSeq(remote_log, LAMBDA ev : ev.op = "transcription"))
\* attempts that failed: an attempt fails in exactly one of its requests
FailedAttempts == Len(SelectSeq(Requests, LAMBDA ev : ~ev.ok))

\* C3: with max_retries = m >= 1, a call whose first k < m attempts fail
\* and whose next attempt succeeds returns that attempt's texts after
\* exactly k + 1 attempts; a call whose attempts all fail makes exactly m
\* attempts and raises the error of the last one, returning nothing.
C3_RetryCountsAndReraise ==
    (entry = "process_chunk_with_retries" /\ max_retries >= 1) =>
        /\ pc = "retry_returned" =>
              /\ retry_result.kind = "triple"
              /\ FailedAttempts < max_retries
              /\ AttemptsMade = FailedAttempts + 1
              /\ fault_budget = 0
              /\ LET n == Len(Requests)
                 IN  /\ Requests[n - 1] =
                           [op |-> "transcription", attempt |-> FailedAttempts,
                            pos |-> 0, ok |-> TRUE,
                            text |-> retry_result.urdu_text]
                     /\ Requests[n] =
                           [op |-> "translation", attempt |-> FailedAttempts,
                            pos |-> 0, ok |-> TRUE,
                            text |-> retry_result.english_text]
        /\ pc = "retry_raised" =>
              /\ retry_result.kind = "unset"
              /\ AttemptsMade = max_retries
              /\ FailedAttempts = max_retries
              /\ exc.attempt = max_retries - 1
              /\ exc.op = Requests[Len(Requests)].op
              /\ ~Requests[Len(Requests)].ok
        /\ pc \notin {"retry_returned", "retry_raised"} =>
              /\ AttemptsMade <= max_retries
              /\ ENABLED NextRetry

\* max_retries = 3, two failed attempts, then a third attempt that succeeds
C3_Witness ==
    /\ entry = "process_chunk_with_retries"
    /\ pc = "retry_returned"
    /\ max_retries = 3
    /\ FailedAttempts = 2
    /\ AttemptsMade = 3
    /\ retry_result.kind = "triple"

\* max_retries = 3 and three failed attempts: the third error is raised
C3_WitnessExhausted ==
    /\ entry = "process_chunk_with_retries"
    /\ pc = "retry_raised"
    /\ max_retries = 3
    /\ AttemptsMade = 3
    /\ exc = Failure("translation", 2)

(***************************************************************************)
(* Properties of process_chunks and process_file (checked under SpecFile). *)
(***************************************************************************)
\* the positions of PerWindowProcessing
WindowPcs ==
    {"process_chunks", "process_chunks_export", "process_chunks_transcription",
     "process_chunks_translation", "process_chunks_except",
     "process_chunks_finally"}

HasError(r) == "error" \in DOMAIN r

\* C1: in process_chunks every exception raised while window i is
\* processed (export, transcription or translation) is absorbed into a
\* degraded result for window i (the error stored, the placeholder texts),
\* processing goes on with window i+1, and the list returned has exactly
\* one result per window, in window order, with chunk_id = 1..n.
C1_EveryWindowGetsOneResult ==
    (entry = "process_file") =>
        /\ pc \in WindowPcs =>
              /\ Len(results) = IF pc = "process_chunks_finally" THEN i + 1 ELSE i
              /\ i <= Len(chunks)
              /\ pc # "process_chunks" => i < Len(chunks)
        /\ pc = "process_chunks_finally" =>
              /\ HasError(results[i + 1]) <=> exc # NoError
              /\ exc # NoError => results[i + 1].error = exc
        /\ pc = "save_processed_data" =>
              /\ Len(results) = Len(chunks)
              /\ i = Len(chunks)
        /\ \A w \in 1..Len(results) :
              /\ results[w].chunk_id = w
              /\ results[w].start_time = ms_to_timestamp(chunks[w].start_ms)
              /\ results[w].end_time = ms_to_timestamp(chunks[w].end_ms)
              /\ HasError(results[w]) =>
                    /\ results[w].error.op \in
                          {"export", "transcription", "translation"}
                    /\ results[w].urdu_text = UrduPlaceholder
                    /\ results[w].english_translation = EnglishPlaceholder

\* three windows: the export of the first failed, the second succeeded, the
\* translation of the third failed, and process_chunks has returned
C1_Witness ==
    /\ entry = "process_file"
    /\ pc = "save_processed_data"
    /\ Len(results) = 3
    /\ HasError(results[1]) /\ results[1].error.op = "export"
    /\ ~HasError(results[2])
    /\ HasError(results[3]) /\ results[3].error.op = "translation"

C2_FailedFromChunking ==
    /\ entry = "process_file"
    /\ pc = "process_file_raised"
    /\ exc = Failure("chunk_audio", 0)

\* C4 as stated: a window of process_chunks is degraded by a remote
\* failure only after DefaultMaxRetries attempts have all failed, and a
\* window whose remote calls fail once and would succeed on the next attempt
\* gets a successful result.
C4_WindowsRetriedPerPolicy ==
    (entry = "process_file" /\ pc = "process_chunks_finally") =>
        /\ (HasError(results[i + 1])
              /\ results[i + 1].error.op \in {"transcription", "translation"}) =>
                 /\ AttemptsMade = DefaultMaxRetries
                 /\ FailedAttempts = DefaultMaxRetries
        /\ (exc.op # "export" /\ FailedAttempts <= 1 /\ fault_budget = 0) =>
                 ~HasError(results[i + 1])

RECURSIVE TextsWithoutError(_, _)
\* the texts (field key) of the results whose error is unset, in order
TextsWithoutError(rs, key) ==
    IF Len(rs) = 0 THEN <<>>
    ELSE (IF HasError(Head(rs)) THEN <<>> ELSE <<Head(rs)[key]>>)
            \o TextsWithoutError(Tail(rs), key)

\* save_processed_data has returned file_data to process_file
Saved == entry = "process_file" /\ file_data # NoFileData

\* C5 as stated: the combined Urdu text and the combined English text
\* written by save_processed_data are the texts of exactly the results
\* whose error is unset, in window order, joined by single spaces, whatever
\* the texts are.
C5_CombinedTextsFollowErrorField ==
    Saved =>
        /\ outputs[PathStem(audio_path)].urdu =
              File(Join(TextsWithoutError(results, "urdu_text")))
        /\ outputs[PathStem(audio_path)].english =
              File(Join(TextsWithoutError(results, "english_translation")))

(***************************************************************************)
(* Properties of update_metadata (checked under SpecLedger).               *)
(***************************************************************************)
\* C6: starting from an absent ledger, every one of N calls of
\* update_metadata in a row succeeds, and after them the persisted ledger
\* has total_files = N and N history entries, the k-th being that of the
\* k-th call (its filename, duration and chunks); a call appends one entry
\* and leaves the earlier entries as they were.
C6_LedgerCountsCallsInOrder ==
    (entry = "update_metadata" /\ ledger0 = LedgerAbsent) =>
        /\ \A k \in 1..Len(call_log) : call_log[k].ok
        /\ pc \in {"caller", "update_metadata", "update_metadata_update",
                   "update_metadata_save"}
        /\ LET n == Len(call_log)
           IN  IF n = 0
               THEN ledger_file = LedgerAbsent
               ELSE /\ ledger_file.kind = "json"
                    /\ ledger_file.isdict
                    /\ ledger_file.doc.total_files = n
                    /\ Len(ledger_file.doc.processing_history) = n
                    /\ \A k \in 1..n :
                          LET h == ledger_file.doc.processing_history[k]
                          IN  /\ h.filename = call_log[k].filename
                              /\ h.duration = call_log[k].duration
                              /\ h.chunks = call_log[k].chunks
                    /\ \A k \in 2..n :
                          ledger_file.doc.processing_history[k - 1].date <
                             ledger_file.doc.processing_history[k].date

\* three calls in a row from an absent ledger, the first and the third for
\* the same file
C6_Witness ==
    /\ entry = "update_metadata"
    /\ ledger0 = LedgerAbsent
    /\ pc = "caller"
    /\ Len(call_log) = 3
    /\ call_log[1].filename = call_log[3].filename
    /\ call_log[1].filename # call_log[2].filename
    /\ ledger_file.kind = "json"
    /\ ledger_file.doc.total_files = 3

\* C7 as stated: whatever metadata.json holds that is no ledger (absent,
\* empty, not parsable, or a JSON document that is not a ledger document),
\* the first call of update_metadata does not raise and leaves a ledger
\* with exactly one history entry and total_files = 1.
C7_RecoversFromAnyBadLedger ==
    (entry = "update_metadata" /\ pc = "caller" /\ Len(call_log) = 1
        /\ ledger0 \in {LedgerAbsent, LedgerEmpty} \cup ForeignLedgers) =>
        /\ call_log[1].ok
        /\ exc = NoError
        /\ ledger_file.kind = "json"
        /\ ledger_file.doc.total_files = 1
        /\ Len(ledger_file.doc.processing_history) = 1

\* what the code does recover from: an absent, an empty and an unparsable
\* metadata.json
C7_RecoversFromUnparsableLedger ==
    (entry = "update_metadata" /\ pc = "caller" /\ Len(call_log) = 1
        /\ ledger0 \in {LedgerAbsent, LedgerEmpty, LedgerUnparsable}) =>
        /\ call_log[1].ok
        /\ exc = NoError
        /\ ledger_file.kind = "json"
        /\ ledger_file.doc.total_files = 1
        /\ Len(ledger_file.doc.processing_history) = 1

(***************************************************************************)
(* Properties of process_dataset_folder (checked under SpecDataset).       *)
(***************************************************************************)
\* the processing_history of a metadata.json that holds a ledger document
History(file) ==
    IF file.kind = "json" /\ file.isdict
          /\ "processing_history" \in DOMAIN file.doc
    THEN file.doc.processing_history
    ELSE <<>>

\* the calls of process_file that returned, in call order
Succeeded == SelectSeq(invocations, LAMBDA c : c.outcome = "returned")

\* the entries the ledger has gained since the first call found it
NewEntries == SubSeq(History(ledger_file), Len(History(ledger0)) + 1,
                     Len(History(ledger_file)))

InCall == Len(invocations) > 0 /\ invocations[Len(invocations)].outcome = "running"

\* C12: a call of process_file on a source that cannot be decoded goes from
\* chunk_audio raising through the except clause to raising, and nowhere
\* else: it never reaches process_chunks, save_processed_data or
\* update_metadata, and all along, the moment it has raised included, every
\* output under processed_data/ and metadata.json are as the call found
\* them.
C12_UndecodableFileTouchesNothing ==
    (entry = "process_dataset_folder" /\ InCall /\ ~decodable) =>
        /\ pc \in {"process_file", "chunk_audio", "chunk_audio_raised",
                   "process_file_except", "process_file_raised"}
        /\ outputs = snap.outputs
        /\ ledger_file = snap.ledger
        /\ file_data = NoFileData
        /\ metadata = NoMetadata
        /\ results = <<>>
        /\ pc = "process_file_raised" => exc = Failure("chunk_audio", 0)
        /\ pc # "process_file_raised" => ENABLED ProcessFileSteps

\* the second file of the walk, of the same stem as the first, cannot be
\* decoded and its call has raised; the outputs and the ledger entry of the
\* first are there
C12_Witness ==
    /\ entry = "process_dataset_folder"
    /\ InCall
    /\ ~decodable
    /\ pc = "process_file_raised"
    /\ Len(invocations) = 2
    /\ invocations[1].outcome = "returned"
    /\ PathStem(invocations[1].path) = PathStem(audio_path)
    /\ outputs[PathStem(audio_path)].detailed.exists
    /\ Len(History(ledger_file)) >= 1

\* C14 as stated: any two distinct source files that one walk of
\* process_dataset_folder has processed (sub-folder and extension set
\* aside) wrote disjoint sets of output paths, and the outputs of each are
\* still its own: its audio copy and its detailed JSON are those written
\* for it.
C14_FilesNeverShareOutputs ==
    (entry = "process_dataset_folder") =>
        \A a, b \in 1..Len(invocations) :
            (a # b /\ invocations[a].outcome = "returned"
                   /\ invocations[b].outcome = "returned") =>
                LET src == invocations[a].path
                IN  /\ OutputPaths(src) \cap OutputPaths(invocations[b].path) = {}
                    /\ outputs[PathStem(src)].audio = File(src)
                    /\ outputs[PathStem(src)].detailed.content.metadata.original_file
                          = src

\* C17: process_dataset_folder on a root that does not exist raises the
\* not-found error from its first statement: nothing is discovered,
\* process_file is never called, and metadata.json and the outputs under
\* processed_data/ stay as they were.
C17_MissingRootFailsFast ==
    (entry = "process_dataset_folder" /\ ~dataset.exists) =>
        /\ pc \in {"process_dataset_folder", "process_dataset_folder_raised"}
        /\ pc = "process_dataset_folder_raised" =>
              exc = Failure("FileNotFoundError", 0)
        /\ pc = "process_dataset_folder" => ENABLED process_dataset_folder_begin
        /\ audio_files = <<>>
        /\ invocations = <<>>
        /\ call_log = <<>>
        /\ ledger_file = ledger0
        /\ outputs = [stem \in Stems |-> NoOutputs]
        /\ temp_files = {}

\* the call on a missing root has raised, an earlier ledger in place
C17_Witness ==
    /\ entry = "process_dataset_folder"
    /\ ~dataset.exists
    /\ pc = "process_dataset_folder_raised"
    /\ exc = Failure("FileNotFoundError", 0)
    /\ ledger_file = PriorLedger

(***************************************************************************)
(* Properties of concurrent calls of update_metadata and of the viewer     *)
(* (checked under SpecWriters).                                            *)
(***************************************************************************)
\* the writers whose updated document is complete in memory
WritersWithDocument ==
    {w \in Writers : writers[w].pc \in {"open", "dump", "dump_rest", "returned"}}

\* what the viewer gets from a complete ledger document: the one the calls
\* found, or one that a call has written or is writing
CompleteViews ==
    {ViewerMetadata(ledger0)}
        \cup {ViewerMetadata(LedgerJson(writers[w].metadata.doc)) :
                 w \in WritersWithDocument}

\* C13 as stated: whenever the viewer loads metadata.json while
\* update_metadata rewrites it, it gets the complete old document or a
\* complete new one, never an empty or partly written file.
C13_ReaderSeesOldOrNewLedger ==
    (entry = "concurrent" /\ reader_seen # NotRead) =>
        reader_seen \in CompleteViews

\* what the viewer does get: a complete document, or its defaults for a
\* file that is empty or does not parse
C13_ReaderSeesLedgerOrDefaults ==
    (entry = "concurrent" /\ reader_seen # NotRead) =>
        \/ reader_seen \in CompleteViews
        \/ reader_seen.kind = "default"

\* total_files of the ledger the calls found
OldTotal == IF ledger0.kind = "json" THEN ledger0.doc.total_files ELSE 0

\* every concurrent call of update_metadata has returned
AllWritersReturned == \A w \in Writers : writers[w].pc = "returned"

\* C19: when every call of update_metadata has returned and no call loaded
\* metadata.json while another was between its load and the end of its
\* write (the calls were serialized), the ledger holds the entries it had
\* followed by one entry per call, and total_files has grown by the number
\* of calls; an entry is missing from a parsable ledger only after calls
\* that overlapped.  (That overlapping calls do lose an entry is the
\* reachable state C19_Witness.)
C19_SerializedCallsLoseNothing ==
    (entry = "concurrent" /\ AllWritersReturned) =>
        /\ ~overlapped =>
              /\ ledger_file.kind = "json"
              /\ ledger_file.doc.total_files = OldTotal + Cardinality(Writers)
              /\ Len(NewEntries) = Cardinality(Writers)
              /\ SubSeq(History(ledger_file), 1, Len(History(ledger0))) =
                    History(ledger0)
              /\ \A w \in Writers :
                    \E k \in 1..Len(NewEntries) :
                        NewEntries[k].filename =
                            PathName(writers[w].file_data.metadata.original_file)
        /\ (ledger_file.kind = "json"
              /\ ledger_file.doc.total_files < OldTotal + Cardinality(Writers)) =>
                 overlapped
        /\ ledger_file.kind = "json" =>
              ledger_file.doc.total_files <= OldTotal + Cardinality(Writers)

\* two calls for two files overlapped and both returned: the ledger parses,
\* keeps the entry it had, and has gained the entry of one call only, with
\* total_files up by 1
C19_Witness ==
    /\ entry = "concurrent"
    /\ AllWritersReturned
    /\ overlapped
    /\ Cardinality(Writers) = 2
    /\ writers[1].file_data # writers[2].file_data
    /\ ledger0 = PriorLedger
    /\ ledger_file.kind = "json"
    /\ ledger_file.doc.total_files = OldTotal + 1
    /\ Len(NewEntries) = 1
    /\ SubSeq(History(ledger_file), 1, Len(History(ledger0))) = History(ledger0)

\* two calls that did not overlap: both entries are there
C19_WitnessSerialized ==
    /\ entry = "concurrent"
    /\ AllWritersReturned
    /\ ~overlapped
    /\ writers[1].file_data # writers[2].file_data
    /\ ledger0 = PriorLedger
    /\ Len(NewEntries) = 2

(***************************************************************************)
(* Properties of ms_to_timestamp (checked under SpecTimestamp).            *)
(***************************************************************************)
\* the value of a digit character
DigitValue(ch) == CHOOSE d \in 0..9 : DigitChars[d + 1] = ch

\* whether a text is a non-empty string of digits
IsDigits(text) ==
    Len(text) >= 1 /\ \A k \in 1..Len(text) : \E d \in 0..9 : DigitChars[d + 1] = text[k]

RECURSIVE ParseDecimal(_)
\* the number a string of digits denotes
ParseDecimal(text) ==
    IF Len(text) = 0 THEN 0
    ELSE 10 * ParseDecimal(SubSeq(text, 1, Len(text) - 1))
            + DigitValue(text[Len(text)])

\* a field of a timestamp denotes n, padded with zeros to two digits and
\* no further
IsField(text, n) ==
    /\ IsDigits(text)
    /\ ParseDecimal(text) = n
    /\ Len(text) >= 2
    /\ Len(text) > 2 => text[1] # "0"

\* C15: for ms >= 0, ms_to_timestamp(ms) is three fields of digits
\* separated by two colons, MM:SS:CC, denoting MM = ms div 60000,
\* SS = (ms mod 60000) div 1000 and CC = (ms mod 1000) div 10 (cut, not
\* rounded: CC * 10 <= ms mod 1000 < CC * 10 + 10), each padded with zeros
\* to two digits and no further; ms_to_timestamp(0) is "00:00:00" and
\* ms_to_timestamp(65432) is "01:05:43".
C15_TimestampIsTruncatedFields ==
    (entry = "ms_to_timestamp" /\ pc = "ms_to_timestamp_returned") =>
        LET colons == {k \in 1..Len(ts_out) : ts_out[k] = ":"}
            c1 == CHOOSE k \in colons : \A j \in colons : k <= j
            c2 == CHOOSE k \in colons : \A j \in colons : j <= k
            mm == SubSeq(ts_out, 1, c1 - 1)
            ss == SubSeq(ts_out, c1 + 1, c2 - 1)
            cc == SubSeq(ts_out, c2 + 1, Len(ts_out))
        IN  /\ Cardinality(colons) = 2
            /\ IsField(mm, ts_ms \div 60000)
            /\ IsField(ss, (ts_ms % 60000) \div 1000)
            /\ IsField(cc, (ts_ms % 1000) \div 10)
            /\ Len(ss) = 2
            /\ Len(cc) = 2
            /\ ParseDecimal(cc) * 10 <= ts_ms % 1000
            /\ ts_ms % 1000 < ParseDecimal(cc) * 10 + 10
            /\ ParseDecimal(mm) * 60000 + ParseDecimal(ss) * 1000 <= ts_ms
            /\ ts_ms = 0 =>
                  ts_out = <<"0", "0", ":", "0", "0", ":", "0", "0">>
            /\ ts_ms = 65432 =>
                  ts_out = <<"0", "1", ":", "0", "5", ":", "4", "3">>

\* ms_to_timestamp(65432) has returned "01:05:43"
C15_Witness ==
    /\ entry = "ms_to_timestamp"
    /\ pc = "ms_to_timestamp_returned"
    /\ ts_ms = 65432
    /\ ts_out = <<"0", "1", ":", "0", "5", ":", "4", "3">>

\* a time of 100 minutes and 995 ms: a first field of three digits, and
\* hundredths that rounding would carry over
C15_WitnessLong ==
    /\ entry = "ms_to_timestamp"
    /\ pc = "ms_to_timestamp_returned"
    /\ ts_ms = 6000995
    /\ ts_out = <<"1", "0", "0", ":", "0", "0", ":", "9", "9">>

(***************************************************************************)
(* Properties of process_file on an empty source (checked under SpecFile). *)
(***************************************************************************)
\* C16: process_file on a source of 0 ms that decodes gets zero windows
\* from chunk_audio and goes on as with any file: chunk_audio does not
\* raise, no window is exported, no remote request is made, and the call
\* raises only if a step of save_processed_data fails or metadata.json
\* holds a document that is no ledger, never for the lack of windows; when
\* it returns, the FileRecord has total_chunks = 0 and no chunks, both
\* combined texts are empty, and the ledger has gained exactly one history
\* entry, for this file, with chunks = 0.
C16_EmptyFileIsNoWindowFile ==
    (entry = "process_file" /\ audio_len = 0 /\ decodable) =>
        /\ pc \notin (WindowPcs \ {"process_chunks"}) \cup {"chunk_audio_raised"}
        /\ chunks = <<>>
        /\ results = <<>>
        /\ remote_log = <<>>
        /\ temp_files = {}
        /\ pc \in {"process_file_except", "process_file_raised"} =>
              /\ exc.op \in {"audio", "urdu", "english", "detailed",
                             "update_metadata"}
              /\ exc.op = "update_metadata" => ~CanUpdate(LoadMetadata(ledger0))
        /\ pc \in {"process_file_return", "process_file_returned"} =>
              /\ file_data.metadata.total_chunks = 0
              /\ file_data.chunks = <<>>
              /\ file_data.summary.successful_chunks = 0
              /\ outputs[PathStem(audio_path)].urdu = File(<<>>)
              /\ outputs[PathStem(audio_path)].english = File(<<>>)
              /\ outputs[PathStem(audio_path)].detailed = File(file_data)
              /\ Len(NewEntries) = 1
              /\ NewEntries[1].chunks = 0
              /\ NewEntries[1].duration = 0
              /\ NewEntries[1].filename = PathName(audio_path)
              /\ ledger_file.doc.total_files = Len(History(ledger0)) + 1
        /\ pc \notin {"process_file_raised", "process_file_returned"} =>
              ENABLED ProcessFileSteps

\* process_file has returned for a source of 0 ms, after a ledger with one
\* entry: the ledger has a second entry, with chunks = 0
C16_Witness ==
    /\ entry = "process_file"
    /\ audio_len = 0
    /\ decodable
    /\ pc = "process_file_returned"
    /\ ledger0 = PriorLedger
    /\ Len(History(ledger_file)) = 2
    /\ History(ledger_file)[2].chunks = 0
    /\ file_data.metadata.total_chunks = 0

(***************************************************************************)
(* Properties of processing a source file again (checked under SpecRerun). *)
(***************************************************************************)
\* the second call of process_file on the source has updated the ledger and
\* is returning or has returned
SecondRunSucceeded ==
    /\ entry = "main"
    /\ Len(invocations) = 2
    /\ \/ pc \in {"process_file_return", "process_file_returned"}
       \/ pc = "main" /\ invocations[2].outcome = "returned"

\* C18: after a second successful run on the same source file, whatever the
\* first run did and whatever results the two runs got, the outputs of the
\* stem are those of the second run alone: the audio copy, the combined
\* Urdu and English texts made of the second run's results (sentinel texts
\* left out), and a detailed JSON whose chunks are the second run's
\* results and whose counts are taken from them.
C18_RerunOverwritesOutputs ==
    SecondRunSucceeded =>
        LET out == outputs[PathStem(audio_path)]
        IN  /\ out.audio = File(audio_path)
            /\ out.urdu = File(Join(KeptUrdu(results)))
            /\ out.english = File(Join(KeptEnglish(results)))
            /\ out.detailed = File(file_data)
            /\ out.detailed.content.chunks = results
            /\ out.detailed.content.metadata.total_chunks = Len(results)
            /\ Len(results) = Len(chunks)

\* both runs succeeded; the first left a combined Urdu text, the second,
\* whose window failed, has replaced it by the empty text and the chunks of
\* the detailed JSON by its one degraded result
C18_Witness ==
    /\ SecondRunSucceeded
    /\ pc = "main"
    /\ invocations[1].outcome = "returned"
    /\ snap.outputs[PathStem(audio_path)].urdu.exists
    /\ snap.outputs[PathStem(audio_path)].urdu.content # <<>>
    /\ ~HasError(snap.outputs[PathStem(audio_path)].detailed.content.chunks[1])
    /\ outputs[PathStem(audio_path)].urdu = File(<<>>)
    /\ Len(results) = 1
    /\ HasError(results[1])

(***************************************************************************)
(* Properties of the backoff of process_chunk_with_retries (checked under  *)
(* SpecRetry).                                                             *)
(***************************************************************************)
\* the backoff waits of the log, in order
Sleeps == SelectSeq(remote_log, LAMBDA ev : ev.op = "sleep")

\* C20: in process_chunk_with_retries every wait follows at once the
\* failed request of an attempt that is not the last permitted one, and
\* every such failed request is followed by a wait before anything else;
\* no wait follows a successful request.  The j-th wait is that of the
\* attempt with index a = j - 1 and lasts 2^a plus a jitter in [1, 3]
\* seconds, so between 2^a + 1 and 2^a + 3, and the lower bound 2^a + 1
\* grows strictly from one wait to the next.  A call that returns after f
\* failed attempts has waited f times, and a call that raises has waited
\* max_retries - 1 times.
C20_BackoffBetweenAttempts ==
    (entry = "process_chunk_with_retries") =>
        /\ \A k \in 1..Len(remote_log) :
              remote_log[k].op = "sleep" =>
                 /\ k > 1
                 /\ remote_log[k - 1].op # "sleep"
                 /\ ~remote_log[k - 1].ok
                 /\ remote_log[k - 1].attempt = remote_log[k].attempt
                 /\ remote_log[k].attempt < max_retries - 1
                 /\ remote_log[k].wait_time >= 2 ^ remote_log[k].attempt + 1
                 /\ remote_log[k].wait_time <= 2 ^ remote_log[k].attempt + 3
        /\ \A k \in 1..(Len(remote_log) - 1) :
              remote_log[k].op # "sleep" =>
                 IF ~remote_log[k].ok /\ remote_log[k].attempt < max_retries - 1
                 THEN remote_log[k + 1].op = "sleep"
                 ELSE remote_log[k + 1].op # "sleep"
        /\ \A j \in 1..Len(Sleeps) : Sleeps[j].attempt = j - 1
        /\ \A j \in 2..Len(Sleeps) :
              2 ^ Sleeps[j - 1].attempt + 1 < 2 ^ Sleeps[j].attempt + 1
        /\ pc = "retry_returned" =>
              /\ Len(Sleeps) = FailedAttempts
              /\ Len(remote_log) > 0 => remote_log[Len(remote_log)].op # "sleep"
        /\ pc = "retry_raised" =>
              /\ Len(Sleeps) = max_retries - 1
              /\ FailedAttempts = max_retries
              /\ remote_log[Len(remote_log)].op # "sleep"

\* max_retries = 3: two failed attempts, waits of 2 s (2^0 + 1) and 5 s
\* (2^1 + 3), then an attempt that succeeded, with no wait after it
C20_Witness ==
    /\ entry = "process_chunk_with_retries"
    /\ pc = "retry_returned"
    /\ max_retries = 3
    /\ FailedAttempts = 2
    /\ Len(Sleeps) = 2
    /\ Sleeps[1].wait_time = 2
    /\ Sleeps[2].wait_time = 5
    /\ remote_log[Len(remote_log)].op = "translation"
    /\ remote_log[Len(remote_log)].ok

\* max_retries = 4 and four failed attempts: three waits, the last of 7 s
\* (2^2 + 3), and none after the fourth failure
C20_WitnessExhausted ==
    /\ entry = "process_chunk_with_retries"
    /\ pc = "retry_raised"
    /\ max_retries = 4
    /\ Len(Sleeps) = 3
    /\ Sleeps[3].wait_time = 7

(***************************************************************************)
(* C21: within every attempt of process_chunk_with_retries the             *)
(* transcription request is issued before the translation request, each    *)
(* reading the payload from position 0.  A failed transcription is not     *)
(* followed by a translation of the same attempt; after a failed           *)
(* translation the next request is the transcription of the next attempt,  *)
(* and the triple returned holds the texts of the last attempt only.       *)
(***************************************************************************)
C21_TranscriptionThenTranslationPerAttempt ==
    /\ \A k \in 1..Len(Requests) :
          LET r == Requests[k] IN
          /\ r.pos = 0
          /\ r.op \in {"transcription", "translation"}
          /\ r.op = "transcription" =>
                \/ k = 1 /\ r.attempt = 0
                \/ /\ k > 1
                   /\ ~Requests[k - 1].ok
                   /\ r.attempt = Requests[k - 1].attempt + 1
          /\ r.op = "translation" =>
                /\ k > 1
                /\ Requests[k - 1].op = "transcription"
                /\ Requests[k - 1].ok
                /\ Requests[k - 1].attempt = r.attempt
    /\ pc = "retry_translation" =>
          /\ Len(Requests) > 0
          /\ Requests[Len(Requests)].op = "transcription"
          /\ Requests[Len(Requests)].ok
          /\ Requests[Len(Requests)].attempt = attempt
          /\ transcription = Requests[Len(Requests)].text
    /\ pc = "retry_transcription" =>
          \/ Len(Requests) = 0 /\ attempt = 0
          \/ /\ Len(Requests) > 0
             /\ ~Requests[Len(Requests)].ok
             /\ attempt = Requests[Len(Requests)].attempt + 1
    /\ (pc = "retry_returned" /\ retry_result.kind = "triple") =>
          /\ Len(Requests) >= 2
          /\ retry_result.urdu_text = Requests[Len(Requests) - 1].text
          /\ retry_result.english_text = Requests[Len(Requests)].text
          /\ Requests[Len(Requests) - 1].attempt = attempt

\* the translation of the first attempt failed after its transcription
\* succeeded; the second attempt issued both requests again and its texts,
\* with another transcription, were returned
C21_Witness ==
    /\ pc = "retry_returned"
    /\ retry_result.kind = "triple"
    /\ Len(Requests) = 4
    /\ Requests[1].op = "transcription" /\ Requests[1].ok
    /\ Requests[2].op = "translation" /\ ~Requests[2].ok
    /\ Requests[3].op = "transcription" /\ Requests[3].ok
    /\ Requests[3].attempt = 1
    /\ Requests[4].op = "translation" /\ Requests[4].ok
    /\ Requests[1].text # Requests[3].text
    /\ retry_result.urdu_text = Requests[3].text

\* a transcription failed and the next request was the transcription of the
\* next attempt
C21_WitnessTranscriptionFailed ==
    /\ Len(Requests) >= 2
    /\ Requests[1].op = "transcription" /\ ~Requests[1].ok
    /\ Requests[2].op = "transcription" /\ Requests[2].attempt = 1

(***************************************************************************)
(* Properties of the file record (checked under SpecFile).                 *)
(***************************************************************************)
RECURSIVE SumOfSuccessful(_, _)
\* the sum of the word counts (field key) of the results whose error is unset
SumOfSuccessful(rs, key) ==
    IF Len(rs) = 0 THEN 0
    ELSE (IF HasError(Head(rs)) THEN 0 ELSE Head(rs)[key])
            + SumOfSuccessful(Tail(rs), key)

\* C22 as stated: in the file record built by save_processed_data,
\* successful_chunks is the number of results whose error is unset,
\* total_chunks is the number of results, and total_urdu_words and
\* total_english_words are the sums of the word counts of the results whose
\* error is unset.
C22_FileRecordCountsFollowErrorField ==
    Saved =>
        /\ file_data.summary.successful_chunks =
              Len(TextsWithoutError(results, "urdu_text"))
        /\ file_data.metadata.total_chunks = Len(results)
        /\ file_data.summary.total_urdu_words =
              SumOfSuccessful(results, "urdu_word_count")
        /\ file_data.summary.total_english_words =
              SumOfSuccessful(results, "english_word_count")

\* the part of C22 that the record satisfies: the number of results and the
\* two word totals
C22_TotalsFollowErrorField ==
    Saved =>
        /\ file_data.metadata.total_chunks = Len(results)
        /\ file_data.summary.total_urdu_words =
              SumOfSuccessful(results, "urdu_word_count")
        /\ file_data.summary.total_english_words =
              SumOfSuccessful(results, "english_word_count")

\* a record of a successful and a degraded window
C22_WitnessMixed ==
    /\ Saved
    /\ Len(results) = 2
    /\ ~HasError(results[1]) /\ HasError(results[2])
    /\ file_data.summary.total_urdu_words = 2
    /\ file_data.summary.successful_chunks = 1

\* the results with the script flag of every one of them inverted
FlipFlag(rs) ==
    [k \in 1..Len(rs) |-> [rs[k] EXCEPT !.has_urdu_script = ~@]]

\* C23: the script flag is observational.  The flag of a successful result
\* is a function of its Urdu text alone, a window is requested once whatever
\* its flag, and with the flag of every result inverted (all else equal) the
\* success or degraded status of each window, the combined texts, the
\* summary and metadata of the file record and the files written are the
\* same.
C23_ScriptFlagIsObservational ==
    (entry = "process_file") =>
        LET fl == FlipFlag(results)
            stem == PathStem(audio_path)
        IN  /\ \A w \in 1..Len(results) :
                  /\ ~HasError(results[w]) =>
                        results[w].has_urdu_script
                            = HasUrduChars(results[w].urdu_text)
                  /\ HasError(fl[w]) <=> HasError(results[w])
                  /\ fl[w].urdu_text = results[w].urdu_text
                  /\ fl[w].english_translation = results[w].english_translation
            /\ (pc = "process_chunks_finally" /\ exc = NoError) =>
                  /\ AttemptsMade = 1
                  /\ Len(Requests) = 2
                  /\ results[i + 1].urdu_text = Requests[1].text
                  /\ results[i + 1].english_translation = Requests[2].text
            /\ KeptUrdu(fl) = KeptUrdu(results)
            /\ KeptEnglish(fl) = KeptEnglish(results)
            /\ FileData(audio_path, fl, audio_len, clock).summary
                  = FileData(audio_path, results, audio_len, clock).summary
            /\ FileData(audio_path, fl, audio_len, clock).metadata
                  = FileData(audio_path, results, audio_len, clock).metadata
            /\ Saved =>
                  /\ outputs[stem].urdu = File(Join(KeptUrdu(fl)))
                  /\ outputs[stem].english = File(Join(KeptEnglish(fl)))
                  /\ file_data.summary.successful_chunks = Len(KeptUrdu(fl))

\* two successful windows, one flagged as Urdu script and one not, both in
\* the combined text that was written
C23_Witness ==
    /\ Saved
    /\ Len(results) = 2
    /\ ~HasError(results[1]) /\ results[1].has_urdu_script
    /\ ~HasError(results[2]) /\ ~results[2].has_urdu_script
    /\ outputs[PathStem(audio_path)].urdu =
          File(results[1].urdu_text \o <<" ">> \o results[2].urdu_text)
    /\ file_data.summary.successful_chunks = 2

\* the same for process_chunk_with_retries (checked under SpecRetry): the
\* flag returned is a function of the Urdu text returned, and the call
\* returns at its first attempt without a failed request, whatever the flag
C23_RetriesIgnoreScriptFlag ==
    (pc = "retry_returned" /\ retry_result.kind = "triple") =>
        /\ retry_result.has_urdu_chars = HasUrduChars(retry_result.urdu_text)
        /\ AttemptsMade = FailedAttempts + 1
        /\ Sleeps = SelectSeq(remote_log,
                              LAMBDA ev : ev.op = "sleep"
                                            /\ ev.attempt < AttemptsMade - 1)
        /\ Len(Sleeps) = FailedAttempts

\* a triple returned after one failed attempt with the flag unset
C23_WitnessRetries ==
    /\ pc = "retry_returned"
    /\ retry_result.kind = "triple"
    /\ ~retry_result.has_urdu_chars
    /\ AttemptsMade = 2

(***************************************************************************)
(* C24: in process_file, update_metadata runs at most once and only after  *)
(* save_processed_data has returned, that is with the four outputs of the  *)
(* file written and the detailed record holding file_data.  If             *)
(* save_processed_data raises, process_file raises with the ledger as it   *)
(* was and update_metadata not called.  A ledger that has changed has      *)
(* gained exactly one history entry, that of the file whose record was     *)
(* written.  (Checked under SpecFile.)                                     *)
(***************************************************************************)
UpdateMetadataPcs ==
    {"update_metadata", "update_metadata_update", "update_metadata_save"}

\* the four outputs of the file exist and the detailed record is file_data
RecordWritten ==
    LET out == outputs[PathStem(audio_path)]
    IN  /\ file_data # NoFileData
        /\ out.audio.exists /\ out.urdu.exists /\ out.english.exists
        /\ out.detailed = File(file_data)

C24_LedgerUpdatedAfterOutputsWritten ==
    (entry = "process_file") =>
        /\ Len(call_log) <= 1
        /\ pc \in UpdateMetadataPcs =>
              /\ RecordWritten
              /\ call_log = <<>>
              /\ ledger_file = ledger0
        /\ (call_log # <<>> \/ metadata # NoMetadata) => RecordWritten
        /\ pc \in {"process_file_return", "process_file_returned"} =>
              /\ RecordWritten
              /\ Len(call_log) = 1 /\ call_log[1].ok
        /\ ledger_file # ledger0 =>
              /\ RecordWritten
              /\ Len(call_log) = 1 /\ call_log[1].ok
              /\ Len(NewEntries) = 1
              /\ NewEntries[1].filename = PathName(audio_path)
              /\ NewEntries[1].chunks = file_data.metadata.total_chunks
              /\ NewEntries[1].duration = file_data.metadata.duration_seconds
        /\ (\E n \in SaveFailures : exc = Failure(SaveSteps[n], 0)) =>
              /\ pc \in {"process_file_except", "process_file_raised"}
              /\ file_data = NoFileData
              /\ metadata = NoMetadata
              /\ call_log = <<>>
              /\ ledger_file = ledger0

\* writing the detailed record failed after the texts were written:
\* process_file has raised and the ledger of the earlier run is as it was
C24_Witness ==
    /\ entry = "process_file"
    /\ pc = "process_file_raised"
    /\ exc = Failure("detailed", 0)
    /\ outputs[PathStem(audio_path)].urdu.exists
    /\ ~outputs[PathStem(audio_path)].detailed.exists
    /\ ledger0 = PriorLedger
    /\ ledger_file = ledger0
    /\ call_log = <<>>

\* process_file has returned and the ledger has gained the entry of the file
C24_WitnessReturned ==
    /\ entry = "process_file"
    /\ pc = "process_file_returned"
    /\ RecordWritten
    /\ ledger0 = PriorLedger
    /\ Len(NewEntries) = 1
    /\ Len(results) = 2

(***************************************************************************)
(* C25: process_chunks leaks no temporary file.  While a window is being   *)
(* processed the only temporary file is that of the window; at the loop    *)
(* head, before the file of the next window is created, and from the       *)
(* return of process_chunks on, there is none, whichever steps failed.     *)
(* (Checked under SpecFile.)                                               *)
(***************************************************************************)
\* the positions inside one iteration of the loop of process_chunks
InWindowPcs ==
    {"process_chunks_export", "process_chunks_transcription",
     "process_chunks_translation", "process_chunks_except",
     "process_chunks_finally"}

C25_NoTemporaryFileLeft ==
    (entry = "process_file") =>
        /\ Cardinality(temp_files) <= 1
        /\ pc \in InWindowPcs => temp_files = {i + 1}
        /\ pc \notin InWindowPcs => temp_files = {}

\* process_chunks has returned after a window that failed in the export, a
\* window that failed in the translation and a window that succeeded
C25_Witness ==
    /\ entry = "process_file"
    /\ pc = "save_processed_data"
    /\ Len(results) = 3
    /\ HasError(results[1]) /\ results[1].error.op = "export"
    /\ HasError(results[2]) /\ results[2].error.op = "translation"
    /\ ~HasError(results[3])
    /\ temp_files = {}

\* the loop head after a window that failed in the transcription
C25_WitnessTranscriptionFailed ==
    /\ entry = "process_file"
    /\ pc = "process_chunks"
    /\ i = 1 /\ i < Len(chunks)
    /\ HasError(results[1]) /\ results[1].error.op = "transcription"
    /\ temp_files = {}

(***************************************************************************)
(* C26: process_chunk_with_retries called with max_retries <= 0 issues no  *)
(* request and waits for nothing, raises nothing and returns None; called  *)
(* with max_retries >= 1 it ends by returning a triple or by raising, and  *)
(* never returns None.  (Checked under SpecRetry.)                         *)
(***************************************************************************)
C26_NoAttemptsReturnsNone ==
    (entry = "process_chunk_with_retries") =>
        /\ max_retries <= 0 =>
              /\ remote_log = <<>>
              /\ exc = NoError
              /\ file_pos = Closed
              /\ pc \in {"retry_loop", "retry_returned"}
              /\ pc = "retry_loop" =>
                    /\ retry_result = [kind |-> "unset"]
                    /\ ENABLED retry_loop
              /\ pc = "retry_returned" => retry_result = [kind |-> "None"]
        /\ max_retries >= 1 =>
              /\ retry_result.kind \in {"unset", "triple"}
              /\ pc = "retry_returned" => retry_result.kind = "triple"
              /\ pc = "retry_raised" =>
                    /\ retry_result.kind = "unset"
                    /\ exc # NoError
              /\ pc \notin {"retry_returned", "retry_raised"} =>
                    ENABLED NextRetry

\* max_retries = 0 with a service that would fail: None was returned
C26_Witness ==
    /\ entry = "process_chunk_with_retries"
    /\ max_retries = 0
    /\ fault_budget > 0
    /\ pc = "retry_returned"
    /\ retry_result = [kind |-> "None"]
    /\ remote_log = <<>>

\* the same for a negative max_retries and a service that would answer
C26_WitnessNegative ==
    /\ entry = "process_chunk_with_retries"
    /\ max_retries < 0
    /\ fault_budget = 0
    /\ pc = "retry_returned"
    /\ retry_result = [kind |-> "None"]

\* max_retries = 1: one failed attempt raises
C26_WitnessRaised ==
    /\ entry = "process_chunk_with_retries"
    /\ max_retries = 1
    /\ pc = "retry_raised"
    /\ AttemptsMade = 1

=============================================================================
